---- MODULE Spec2Model ----
(***************************************************************************)
(* sciagent: the RunGuardian run lifecycle (guardian.py), the RunRecord    *)
(* (models.py), the run history ledger (history.py), the snapshot stubs    *)
(* (snapshots.py) and the reference selection of the diff engine           *)
(* (diff_engine.py), for several `run` invocations against one state       *)
(* directory and one working directory.                                    *)
(*                                                                         *)
(* Optional values (Python None, an absent file) are sequences of length   *)
(* 0 or 1.                                                                 *)
(* Strings the code inspects character by character are sequences of       *)
(* one-character strings.  File writes are assumed to succeed.             *)
(***************************************************************************)
EXTENDS Integers, Sequences, FiniteSets, TLC

\* ---------------------------------------------------------------- bounds
MaxClock == 1          \* last UTC second the model reaches
MaxExit == 1           \* largest exit code a child chooses
MaxMetric == 1         \* largest metric value a child writes
MaxRuns == 3           \* longest ledger a function is called with
MaxValue == 2          \* largest metric value in such a ledger
MaxPrior == 2          \* longest ledger a state directory starts with
MaxNames == 2          \* most metrics an aggregation returns

\* two `run` invocations against one state directory and working directory
Guardians == {1, 2}
ExitCodes == 0..MaxExit

None == <<>>
Some(x) == <<x>>

Letters == {"a","b","c","d","e","f","g","h","i","j","k","l","m",
            "n","o","p","q","r","s","t","u","v","w","x","y","z"}
Digits == {"0","1","2","3","4","5","6","7","8","9"}
DigitChar == <<"0","1","2","3","4","5","6","7","8","9">>

\* str.isalnum() on one character of the model alphabet
isalnum(ch) == ch \in Letters \cup Digits

\* --name values: absent, and a name with a character that sanitization
\* replaces
Names == {None, Some(<<"r"," ">>)}

ANON == <<"a","n","o","n">>

\* datetime.utcnow().strftime("%Y%m%d_%H%M%S"): fixed width, one value per
\* second; the model renders the seconds field of the modelled minute
strftime(t) == <<DigitChar[((t \div 10) % 10) + 1], DigitChar[(t % 10) + 1]>>

\* RunGuardian._build_run_id
build_run_id(t, name) ==
    LET suffix == IF name = None \/ name[1] = <<>> THEN ANON ELSE name[1]
        safe_suffix == [i \in DOMAIN suffix |->
                          IF isalnum(suffix[i]) \/ suffix[i] \in {"-", "_"}
                          THEN suffix[i] ELSE "-"]
    IN  strftime(t) \o <<"_">> \o safe_suffix

RunIds == {build_run_id(t, n) : t \in 0..MaxClock, n \in Names}

\* metric names and the metric maps a child script writes to metrics.json
ACC == <<"a","c","c">>
MetricNames == {ACC}
EmptyMap == <<>>
MetricMaps == {[n \in S |-> v] : S \in (SUBSET MetricNames) \ {{}}, v \in 1..MaxMetric}

\* datetime.isoformat() + "Z"
IsoZ(t) == <<"iso", t, "Z">>

\* ------------------------------------------------------------ fingerprint
\* canonical_payload: path and parsed content of every config source, the
\* raw text left out
canonical_payload(sources) ==
    [i \in DOMAIN sources |->
        [path |-> sources[i].path, content |-> sources[i].content]]

\* hashlib.sha256(serialized).hexdigest(): the digest stands for the
\* serialized document; json.dumps(sort_keys=True) makes key order irrelevant
sha256(serialized) == <<"sha256", serialized>>

build_fingerprint_raw_text(command, metadata, config_sources, env_snapshot) ==
    sha256([command |-> command, metadata |-> metadata,
            configs |-> config_sources, env |-> env_snapshot])

\* build_fingerprint
build_fingerprint(command, metadata, config_sources, env_snapshot) ==
    sha256([command |-> command, metadata |-> metadata,
            configs |-> IF config_sources # <<>>
                        THEN canonical_payload(config_sources) ELSE <<>>,
            env |-> env_snapshot])

\* the RunSpec fields and the environment snapshot RunGuardian.__init__
\* hands to build_fingerprint
CFG_JSON == <<"c","f","g",".","j","s","o","n">>
LR == <<"l","r">>
ConfigA == [path |-> CFG_JSON, content |-> [k \in {LR} |-> 1], raw_text |-> "{\"lr\": 1}"]
ConfigASpaced == [path |-> CFG_JSON, content |-> [k \in {LR} |-> 1], raw_text |-> "{ \"lr\": 1 }"]
EnvSnapshot == [python_version |-> "3.11", platform |-> "linux", shell |-> "/bin/sh"]
DefaultRunSpec ==
    [command |-> "python train.py", metadata |-> [owner |-> "a"],
     config_sources |-> <<ConfigA>>, env_snapshot |-> EnvSnapshot]
\* a second invocation: the same config file re-indented, or another command
OtherRunSpecs ==
    {[DefaultRunSpec EXCEPT !.config_sources = <<ConfigASpaced>>],
     [DefaultRunSpec EXCEPT !.command = "python eval.py"]}

\* --------------------------------------------------------------- RunRecord
\* RunRecord(...) as RunGuardian.__init__ constructs it: status pending,
\* started_at = utcnow()
NewRecord(id, name, now, fp, config_values) ==
    [run_id |-> id, name |-> name, fingerprint |-> fp,
     status |-> "pending", exit_code |-> None,
     started_at |-> now, ended_at |-> None, duration_seconds |-> None,
     metrics |-> EmptyMap, primary_metric |-> None,
     config_values |-> config_values]

finish_no_duration(rec, status, exit_code, now) ==
    [rec EXCEPT !.status = status,
                !.exit_code = exit_code,
                !.ended_at = Some(now),
                !.duration_seconds = Some(now)]

\* RunRecord.finish
finish(rec, status, exit_code, now) ==
    [rec EXCEPT !.status = status,
                !.exit_code = exit_code,
                !.ended_at = Some(now),
                !.duration_seconds = Some(now - rec.started_at)]

\* RunRecord.to_dict, the document written to run_record.json
to_dict(rec) ==
    [run_id |-> rec.run_id, name |-> rec.name, fingerprint |-> rec.fingerprint,
     status |-> rec.status, exit_code |-> rec.exit_code,
     started_at |-> IsoZ(rec.started_at),
     ended_at |-> IF rec.ended_at # None THEN Some(IsoZ(rec.ended_at[1])) ELSE None,
     duration_seconds |-> rec.duration_seconds,
     metrics |-> rec.metrics, primary_metric |-> rec.primary_metric,
     config_values |-> rec.config_values]

summary_without_metrics(rec) ==
    [run_id |-> rec.run_id, name |-> rec.name, status |-> rec.status,
     fingerprint |-> rec.fingerprint, metrics |-> EmptyMap, primary_metric |-> rec.primary_metric,
     duration_seconds |-> rec.duration_seconds,
     ended_at |-> IF rec.ended_at # None THEN Some(IsoZ(rec.ended_at[1])) ELSE None,
     config_values |-> rec.config_values]

\* the summary RunHistory.append projects from a record
summary(rec) ==
    [run_id |-> rec.run_id, name |-> rec.name, status |-> rec.status,
     fingerprint |-> rec.fingerprint, metrics |-> rec.metrics, primary_metric |-> rec.primary_metric,
     duration_seconds |-> rec.duration_seconds,
     ended_at |-> IF rec.ended_at # None THEN Some(IsoZ(rec.ended_at[1])) ELSE None,
     config_values |-> rec.config_values]

\* ------------------------------------------------------------- RunHistory
RunHistoryInit_empty(file) == <<>>

\* RunHistory.__init__ over a parseable or absent history.json: the "runs"
\* list of the document, or an empty list
RunHistoryInit(file) == IF file = None THEN <<>> ELSE file[1]

\* RunHistory.latest
latest(runs) == IF runs = <<>> THEN None ELSE Some(runs[Len(runs)])

LowerCase == <<"a","b","c","d","e","f","g","h","i","j","k","l","m",
               "n","o","p","q","r","s","t","u","v","w","x","y","z">>
UpperCase == <<"A","B","C","D","E","F","G","H","I","J","K","L","M",
               "N","O","P","Q","R","S","T","U","V","W","X","Y","Z">>

\* str.lower()
lower(s) == [i \in DOMAIN s |->
               IF \E k \in DOMAIN UpperCase : UpperCase[k] = s[i]
               THEN LowerCase[CHOOSE k \in DOMAIN UpperCase : UpperCase[k] = s[i]]
               ELSE s[i]]

\* `sub in s` for strings
Contains(s, sub) ==
    \E i \in 0..(Len(s) - Len(sub)) : SubSeq(s, i + 1, i + Len(sub)) = sub

\* str.startswith
StartsWith(s, p) == Len(s) >= Len(p) /\ SubSeq(s, 1, Len(p)) = p

should_minimize_wer_anywhere(metric_name) ==
    LET lowered == lower(metric_name)
    IN  \/ Contains(lowered, <<"l","o","s","s">>)
        \/ Contains(lowered, <<"e","r","r","o","r">>)
        \/ Contains(lowered, <<"w","e","r">>)

\* _should_minimize
should_minimize(metric_name) ==
    LET lowered == lower(metric_name)
    IN  \/ Contains(lowered, <<"l","o","s","s">>)
        \/ Contains(lowered, <<"e","r","r","o","r">>)
        \/ StartsWith(lowered, <<"w","e","r">>)

\* RunHistory.best: min() and max() return the first extreme entry
best(runs, metric_name) ==
    IF metric_name = None THEN None
    ELSE LET m == metric_name[1]
             candidates == {i \in DOMAIN runs : m \in DOMAIN runs[i].metrics}
             val(i) == runs[i].metrics[m]
         IN  IF candidates = {} THEN None
             ELSE IF should_minimize(m)
             THEN Some(runs[CHOOSE i \in candidates : \A j \in candidates :
                         val(i) < val(j) \/ (val(i) = val(j) /\ i <= j)])
             ELSE Some(runs[CHOOSE i \in candidates : \A j \in candidates :
                         val(i) > val(j) \/ (val(i) = val(j) /\ i <= j)])

\* ------------------------------------------------------------ diff_engine
\* _diff_configs: config keys, inner keys and metric names are character
\* sequences; a config value is None (null, or .get of an absent key) or
\* Some(v), v a number or, under _tracked_params, a map of parameters
TRACKED_PARAMS == <<"_","t","r","a","c","k","e","d","_","p","a","r","a","m","s">>
CFG_LR == <<"c","f","g",".","l","r">>
SEED == <<"s","e","e","d">>
BATCH_SIZE == <<"b","a","t","c","h","_","s","i","z","e">>

\* sorted(set(current) | set(reference)) over the keys of the model:
\* "_tracked_params" < "cfg.lr" < "seed"
ConfigKeyOrder == <<TRACKED_PARAMS, CFG_LR, SEED>>

param_keys ==
    {<<"l","e","a","r","n","i","n","g","_","r","a","t","e">>,
     <<"l","r">>,
     <<"b","a","t","c","h","_","s","i","z","e">>,
     <<"e","p","o","c","h","s">>,
     <<"o","p","t","i","m","i","z","e","r">>,
     <<"m","o","d","e","l","_","t","y","p","e">>,
     <<"h","i","d","d","e","n","_","s","i","z","e">>,
     <<"d","r","o","p","o","u","t">>}

\* dict.get(key)
get(m, k) == IF k \in DOMAIN m THEN m[k] ELSE None

\* _diff_configs(current, reference_config, full_reference), full_reference
\* a non-empty ledger entry
diff_configs(current, reference_config, full_reference) ==
    LET ref_metrics == full_reference.metrics
        extracted_params == [k \in (param_keys \cap DOMAIN ref_metrics) |-> ref_metrics[k]]
        backfill ==
            /\ TRACKED_PARAMS \in DOMAIN current /\ current[TRACKED_PARAMS] # None
            /\ \/ TRACKED_PARAMS \notin DOMAIN reference_config
               \/ reference_config[TRACKED_PARAMS] = None
            /\ DOMAIN extracted_params # {}
        reference ==
            IF backfill
            THEN [k \in (DOMAIN reference_config) \cup {TRACKED_PARAMS} |->
                    IF k = TRACKED_PARAMS THEN Some(extracted_params)
                    ELSE reference_config[k]]
            ELSE reference_config
        Differs(k) == /\ k \in (DOMAIN current) \cup (DOMAIN reference)
                      /\ get(current, k) # get(reference, k)
        keys == SelectSeq(ConfigKeyOrder, Differs)
    IN  [i \in DOMAIN keys |->
            [key |-> keys[i], current |-> get(current, keys[i]),
             reference |-> get(reference, keys[i])]]

\* _diff_metric
diff_metric(rec, reference) ==
    IF rec.primary_metric = None THEN None
    ELSE LET m == rec.primary_metric[1]
         IN  IF m \notin DOMAIN rec.metrics \/ m \notin DOMAIN reference.metrics
             THEN None
             ELSE Some([metric |-> m, current |-> rec.metrics[m],
                        reference |-> reference.metrics[m],
                        delta |-> rec.metrics[m] - reference.metrics[m]])

\* the fields of the RunRecord dataclass without a default, and all of them
RunRecordRequired ==
    {"run_id", "name", "command", "workdir", "fingerprint", "env_snapshot", "metadata"}
RunRecordFields ==
    RunRecordRequired \cup
    {"status", "exit_code", "started_at", "ended_at", "duration_seconds", "metrics",
     "primary_metric", "log_path", "artifact_paths", "suggestion_count", "suggestions",
     "config_values"}

\* try: RunRecord(**reference) except Exception: pass -- the constructor
\* raises TypeError when a required field is missing or a key is no field
RunRecord_from(reference) ==
    IF RunRecordRequired \subseteq DOMAIN reference
          /\ DOMAIN reference \subseteq RunRecordFields
    THEN Some(reference)
    ELSE None

diff_against_history_previous_only(rec, runs) ==
    LET reference == latest(runs)
    IN  [reference_run |-> reference,
         reference_type |-> IF reference # None THEN Some("previous") ELSE None,
         config_differences |->
            IF reference # None
            THEN diff_configs(rec.config_values, reference[1].config_values,
                              reference[1])
            ELSE <<>>,
         metric_delta |-> IF reference # None THEN diff_metric(rec, reference[1]) ELSE None,
         reference_record |-> IF reference # None THEN RunRecord_from(reference[1])
                              ELSE None]

\* diff_against_history: the reference entry, why it was chosen, and the
\* primary-metric delta
diff_against_history(rec, runs) ==
    LET b == IF rec.primary_metric # None THEN best(runs, rec.primary_metric) ELSE None
        reference == IF b # None THEN b ELSE latest(runs)
        reference_type == IF b # None THEN Some("best")
                          ELSE IF reference # None THEN Some("previous") ELSE None
    IN  [reference_run |-> reference, reference_type |-> reference_type,
         config_differences |->
            IF reference # None
            THEN diff_configs(rec.config_values, reference[1].config_values,
                              reference[1])
            ELSE <<>>,
         metric_delta |-> IF reference # None THEN diff_metric(rec, reference[1]) ELSE None,
         reference_record |-> IF reference # None THEN RunRecord_from(reference[1])
                              ELSE None]

NoDiff == [reference_run |-> None, reference_type |-> None,
           config_differences |-> <<>>, metric_delta |-> None,
           reference_record |-> None]

\* reporting._render_metrics: which form the Metrics section takes; a
\* record without metrics gets a note instead of a table
render_metrics(rec, reference_record) ==
    IF rec.metrics = EmptyMap THEN "no_metrics"
    ELSE IF reference_record # None /\ reference_record[1].metrics # EmptyMap
    THEN "comparison_table"
    ELSE "value_table"

\* ------------------------------------------------------------ RunGuardian
\* the keys of a metrics map in iteration order (the modelled metrics files
\* hold one key)
RECURSIVE KeyOrder(_)
KeyOrder(m) ==
    IF DOMAIN m = {} THEN <<>>
    ELSE LET k == CHOOSE x \in DOMAIN m : TRUE
         IN  <<k>> \o KeyOrder([x \in (DOMAIN m) \ {k} |-> m[x]])

priority_metrics ==
    << <<"a","c","c","u","r","a","c","y">>, <<"a","c","c">>,
       <<"f","1","_","s","c","o","r","e">>, <<"f","1">>,
       <<"p","r","e","c","i","s","i","o","n">>, <<"r","e","c","a","l","l">>,
       <<"a","u","c">>, <<"m","a","p">>, <<"a","p">> >>
loss_metrics ==
    << <<"l","o","s","s">>, <<"e","r","r","o","r">>, <<"m","s","e">>,
       <<"m","a","e">>, <<"r","m","s","e">> >>

\* the first (pattern, name) match of the nested loops `for metric in
\* patterns: for name in metric_names: if metric in name.lower()`
FirstMatch(patterns, metric_names) ==
    LET hits == {<<i, j>> \in (DOMAIN patterns) \X (DOMAIN metric_names) :
                    Contains(lower(metric_names[j]), patterns[i])}
    IN  IF hits = {} THEN None
        ELSE LET h == CHOOSE h \in hits : \A o \in hits :
                        h[1] < o[1] \/ (h[1] = o[1] /\ h[2] <= o[2])
             IN  Some(metric_names[h[2]])

auto_detect_loss_first(metric_names) ==
    IF metric_names = <<>> THEN None
    ELSE IF FirstMatch(loss_metrics, metric_names) # None
    THEN FirstMatch(loss_metrics, metric_names)
    ELSE IF FirstMatch(priority_metrics, metric_names) # None
    THEN FirstMatch(priority_metrics, metric_names)
    ELSE Some(metric_names[1])

\* RunGuardian._auto_detect_primary_metric over metric_names =
\* list(metrics.keys()), the keys in insertion order
auto_detect_from_names(metric_names) ==
    IF metric_names = <<>> THEN None
    ELSE IF FirstMatch(priority_metrics, metric_names) # None
    THEN FirstMatch(priority_metrics, metric_names)
    ELSE IF FirstMatch(loss_metrics, metric_names) # None
    THEN FirstMatch(loss_metrics, metric_names)
    ELSE Some(metric_names[1])

\* RunGuardian._auto_detect_primary_metric
auto_detect_primary_metric(metrics) == auto_detect_from_names(KeyOrder(metrics))

\* execute, finally block: record.primary_metric after the aggregated
\* metrics, whose names are metric_names, were merged. `if metrics:` and
\* `if not self.record.primary_metric`: nothing changes without metrics, and
\* a name that is None or empty counts as not configured
primary_metric_after(primary_metric, metric_names) ==
    IF metric_names = <<>> THEN primary_metric
    ELSE IF primary_metric = None \/ primary_metric = Some(<<>>)
    THEN auto_detect_from_names(metric_names)
    ELSE primary_metric

\* dict.update: the keys of `b` overwrite those of `a`
Update(a, b) ==
    [k \in (DOMAIN a) \cup (DOMAIN b) |-> IF k \in DOMAIN b THEN b[k] ELSE a[k]]

\* Path.stem: the file name without its last suffix
stem(path) ==
    LET dots == {i \in DOMAIN path : path[i] = "."}
        last == CHOOSE i \in dots : \A j \in dots : j <= i
    IN  IF dots = {} \/ last = 1 THEN path ELSE SubSeq(path, 1, last - 1)

\* flatten_mapping(values, prefix) of a mapping of scalars: the keys dotted
\* under the prefix, each value present (Some)
flatten_mapping(values, prefix) ==
    LET dotted(key) == IF prefix # <<>> THEN prefix \o <<".">> \o key ELSE key
    IN  [d \in {dotted(key) : key \in DOMAIN values} |->
            Some(values[CHOOSE key \in DOMAIN values : dotted(key) = d])]

RECURSIVE flatten_configs(_)
\* RunGuardian._flatten_configs over config files whose content is a
\* non-empty mapping: later sources overwrite earlier ones
flatten_configs(sources) ==
    IF sources = <<>> THEN [k \in {} |-> None]
    ELSE LET n == Len(sources)
             source == sources[n]
         IN  Update(flatten_configs(SubSeq(sources, 1, n - 1)),
                    flatten_mapping(source.content, stem(source.path)))

\* RunGuardian._safe_float_map over a mapping whose values are Some(n), a
\* value float() converts to n, or None, a value float() rejects (null, a
\* list, a text that is no number)
safe_float_map(values) ==
    [key \in {k \in DOMAIN values : values[k] # None} |-> values[key][1]]

\* the fixed locations of _auto_detect_metrics_file, relative to the working
\* directory
common_locations ==
    <<"metrics.json", "outputs/metrics.json", "results/metrics.json",
      "logs/metrics.json", "output/metrics.json">>

\* a metrics file the user names with --metrics-file
USER_FILE == "custom/metrics.json"

\* RunGuardian._auto_detect_metrics_file: the first location that exists;
\* script_location is <directory of the script>/metrics.json when the
\* command names a python script, appended to the list
auto_detect_metrics_file_script_first(files, script_location) ==
    LET locations == IF script_location # None
                     THEN <<script_location[1]>> \o common_locations
                     ELSE common_locations
        existing == {i \in DOMAIN locations : files[locations[i]] # None}
    IN  IF existing = {} THEN None
        ELSE Some(locations[CHOOSE i \in existing : \A j \in existing : i <= j])

auto_detect_metrics_file(files, script_location) ==
    LET locations == IF script_location # None
                     THEN Append(common_locations, script_location[1])
                     ELSE common_locations
        existing == {i \in DOMAIN locations : files[locations[i]] # None}
    IN  IF existing = {} THEN None
        ELSE Some(locations[CHOOSE i \in existing : \A j \in existing : i <= j])

\* RunGuardian._aggregate_metrics. A file is None (absent) or Some of
\* [valid, data]: whether its text parses as a JSON object, and the object.
\* Returns the combined metrics and self.config_values after the call.
aggregate_metrics_of(spec, files, params_file, config_values) ==
    LET pairs == safe_float_map(spec.metrics)
        metrics_file_path == IF spec.metrics_file # None THEN spec.metrics_file
                             ELSE auto_detect_metrics_file(files, spec.script_location)
        readable == /\ metrics_file_path # None
                    /\ files[metrics_file_path[1]] # None
                    /\ files[metrics_file_path[1]][1].valid
        combined == IF readable
                    THEN Update(pairs, safe_float_map(files[metrics_file_path[1]][1].data))
                    ELSE pairs
        tracked == /\ params_file # None
                   /\ params_file[1].valid
                   /\ DOMAIN params_file[1].data # {}
    IN  [combined |-> combined,
         config_values |->
            IF tracked
            THEN Update(config_values,
                        [k \in {TRACKED_PARAMS} |-> Some(params_file[1].data)])
            ELSE config_values]

\* the paths of the working directory that may hold a metrics file
MetricsPaths == {common_locations[i] : i \in DOMAIN common_locations}
                   \cup {USER_FILE, "src/metrics.json"}

\* RunGuardian._aggregate_metrics for a RunSpec without --metric pairs and
\* without --metrics-file, in a working directory without params.json: the
\* content of <workdir>/metrics.json, if any
aggregate_metrics(file) ==
    aggregate_metrics_of(
        [metrics |-> EmptyMap, metrics_file |-> None,
         script_location |-> Some("metrics.json")],
        [p \in MetricsPaths |->
            IF p = "metrics.json" /\ file # None
            THEN Some([valid |-> TRUE,
                       data |-> [k \in DOMAIN file[1] |-> Some(file[1][k])]])
            ELSE None],
        None, EmptyMap).combined

aggregate_config_values_ignores_params(params_json, config_values) == config_values

\* RunGuardian._aggregate_metrics, what it does to self.config_values, which
\* is the record's config_values: <workdir>/params.json, when it exists, is
\* stored under _tracked_params
aggregate_config_values(params_json, config_values) ==
    aggregate_metrics_of(
        [metrics |-> EmptyMap, metrics_file |-> None,
         script_location |-> Some("metrics.json")],
        [p \in MetricsPaths |-> None],
        IF params_json = None THEN None
        ELSE Some([valid |-> TRUE, data |-> params_json[1]]),
        config_values).config_values

VARIABLES
    clock,          \* the UTC second datetime.utcnow() returns
    historyFile,    \* <state_dir>/history.json: None, or Some(the runs list)
    recordFiles,    \* runs/<run_id>/run_record.json, by run id
    reportFiles,    \* runs/<run_id>/report.md, by run id
    snapshotFiles,  \* runs/<run_id>/snapshots/last.ckpt.json, by run id
    logFiles,       \* runs/<run_id>/command.log, by run id
    metricsFile,    \* <workdir>/metrics.json
    pc,             \* where each guardian's process is
    record,         \* RunGuardian.record
    history,        \* RunGuardian.history.runs, the in-memory ledger
    diff,           \* the DiffResult of the finally block
    child,          \* the child process: none, running, closed (running with
                    \* its output closed), exited
    signalled,      \* whether the guardian sent the child SIGINT
    exit_code,      \* the local exit_code of execute
    interrupted,    \* the local interrupted of execute
    caught_exception, \* the local caught_exception of execute
    result,         \* how execute ended: return, KeyboardInterrupt, exception
    retval,         \* the value execute returned
    trace,          \* the steps of the finally block run so far, in order
    lastWrite,      \* the file the guardian wrote last
    finishCalls,    \* number of calls of RunRecord.finish
    loadedAppends,  \* how many appends had happened when the ledger was loaded
    appendOrder,    \* the guardians in the order of their ledger appends
    runspec,        \* the RunSpec and environment snapshot of each invocation
    historyValid,   \* whether the text of history.json parses as JSON
    corruptedFile,  \* <state_dir>/history.corrupted: None, or Some(content)
    input,          \* the arguments of a function called on its own
    output,         \* None, or Some(what the call returned)
    tracker,        \* the ParamTracker of a script: its params and metrics
    trackerFiles,   \* the files save writes: the metrics file and params.json
    lastSave,       \* None, or Some of what the last save started from
    wizard,         \* the SetupWizard of an `init` invocation and how far it is
    configFiles     \* .sciagent.json in the current and in another directory

fsVars == <<historyFile, recordFiles, reportFiles, snapshotFiles, logFiles, metricsFile>>
childVars == <<child, signalled>>
corruptVars == <<historyValid, corruptedFile>>
callVars == <<input, output>>
trackerVars == <<tracker, trackerFiles, lastSave>>
wizardVars == <<wizard, configFiles>>
otherVars == <<runspec, callVars, trackerVars, wizardVars>>
extVars == <<otherVars, corruptVars>>
localVars == <<exit_code, interrupted, caught_exception>>
execVars == <<localVars, result, retval, trace, finishCalls, loadedAppends, appendOrder>>
vars == <<clock, historyFile, recordFiles, reportFiles, snapshotFiles, logFiles,
          metricsFile, pc, record, history, diff, child, signalled, exit_code,
          interrupted, caught_exception, result, retval, trace, lastWrite,
          finishCalls, loadedAppends, appendOrder, runspec, historyValid,
          corruptedFile, input, output, tracker, trackerFiles, lastSave,
          wizard, configFiles>>

\* RunGuardian._build_fingerprint
guardian_build_fingerprint(g) ==
    build_fingerprint(runspec[g].command, runspec[g].metadata,
                      runspec[g].config_sources, runspec[g].env_snapshot)

\* RunGuardian.__init__: self.config_values, for a command without options
\* and a working directory without further config files
guardian_config_values(g) == flatten_configs(runspec[g].config_sources)

\* the state before any invocation, the ledger file aside
InitExceptHistory ==
    /\ clock = 0
    /\ recordFiles = [id \in RunIds |-> None]
    /\ reportFiles = [id \in RunIds |-> None]
    /\ snapshotFiles = [id \in RunIds |-> None]
    /\ logFiles = [id \in RunIds |-> None]
    /\ metricsFile = None
    /\ pc = [g \in Guardians |-> "idle"]
    /\ record = [g \in Guardians |-> None]
    /\ history = [g \in Guardians |-> <<>>]
    /\ diff = [g \in Guardians |-> NoDiff]
    /\ child = [g \in Guardians |-> "none"]
    /\ signalled = [g \in Guardians |-> FALSE]
    /\ interrupted = [g \in Guardians |-> FALSE]
    /\ caught_exception = [g \in Guardians |-> None]
    /\ exit_code = [g \in Guardians |-> None]
    /\ result = [g \in Guardians |-> "none"]
    /\ retval = [g \in Guardians |-> None]
    /\ trace = [g \in Guardians |-> <<>>]
    /\ lastWrite = [g \in Guardians |-> "none"]
    /\ finishCalls = [g \in Guardians |-> 0]
    /\ loadedAppends = [g \in Guardians |-> 0]
    /\ appendOrder = <<>>
    /\ historyValid = TRUE
    /\ corruptedFile = None

\* a fresh state directory
InitBase == historyFile = None /\ InitExceptHistory

\* no function is called on its own
NoCall == input = None /\ output = None

\* ParamTracker.__init__, in a directory without metrics file and
\* params.json
NoTracker ==
    /\ tracker = [params |-> EmptyMap, metrics |-> EmptyMap]
    /\ trackerFiles = [metrics_json |-> None, params_json |-> None]
    /\ lastSave = None

\* no `init` was invoked; SetupWizard.__init__ sets config = {} and no
\* workdir
NoWizardRun ==
    [pc |-> "idle", config |-> EmptyMap, workdir |-> None, flow |-> "full",
     completed |-> <<>>, confirmed |-> FALSE, abort |-> None,
     success |-> None, status |-> None,
     start |-> [d \in {"cwd", "other"} |-> None],
     provider |-> None, answers |-> None, llm_result |-> None]

NoWizard ==
    /\ wizard = NoWizardRun
    /\ configFiles = [d \in {"cwd", "other"} |-> None]

Init ==
    /\ InitBase
    /\ runspec = [g \in Guardians |-> DefaultRunSpec]
    /\ NoCall
    /\ NoTracker
    /\ NoWizard

\* one second passes on the wall clock
Tick ==
    /\ clock < MaxClock
    /\ clock' = clock + 1
    /\ UNCHANGED <<extVars, fsVars, childVars, pc, record, history, diff, localVars,
                   result, retval, trace, lastWrite, finishCalls, loadedAppends,
                   appendOrder>>

LoadHistory_keeps_file(g) ==
    /\ history' = [history EXCEPT ![g] =
          IF historyFile # None /\ ~historyValid THEN <<>>
          ELSE RunHistoryInit(historyFile)]
    /\ UNCHANGED <<historyFile, corruptVars>>

\* RunHistory.__init__: the runs of a parseable history.json; a file whose
\* text does not parse is renamed to history.corrupted and the store starts
\* empty
LoadHistory(g) ==
    LET unparseable == historyFile # None /\ ~historyValid
    IN  /\ history' = [history EXCEPT ![g] =
              IF unparseable THEN <<>> ELSE RunHistoryInit(historyFile)]
        /\ historyFile' = IF unparseable THEN None ELSE historyFile
        /\ corruptedFile' = IF unparseable THEN historyFile ELSE corruptedFile
        /\ historyValid' = (unparseable \/ historyValid)

Construct_no_persist(g, name) ==
    /\ pc[g] = "idle"
    /\ record' = [record EXCEPT ![g] =
          Some(NewRecord(build_run_id(clock, name), name, clock,
                         guardian_build_fingerprint(g), guardian_config_values(g)))]
    /\ LoadHistory(g)
    /\ loadedAppends' = [loadedAppends EXCEPT ![g] = Len(appendOrder)]
    /\ pc' = [pc EXCEPT ![g] = "constructed"]
    /\ UNCHANGED <<otherVars, clock, recordFiles, reportFiles, snapshotFiles, logFiles,
                   metricsFile, diff, childVars, localVars, result, retval, trace,
                   lastWrite, finishCalls, appendOrder>>

\* RunGuardian.__init__: the run id, the ledger load, the pending record and
\* its first write to run_record.json
Construct(g, name) ==
    /\ pc[g] = "idle"
    /\ LET id == build_run_id(clock, name)
           rec == NewRecord(id, name, clock, guardian_build_fingerprint(g),
                            guardian_config_values(g))
       IN  /\ record' = [record EXCEPT ![g] = Some(rec)]
           /\ recordFiles' = [recordFiles EXCEPT ![id] = Some(to_dict(rec))]
    /\ LoadHistory(g)
    /\ loadedAppends' = [loadedAppends EXCEPT ![g] = Len(appendOrder)]
    /\ lastWrite' = [lastWrite EXCEPT ![g] = "record"]
    /\ pc' = [pc EXCEPT ![g] = "constructed"]
    /\ UNCHANGED <<otherVars, clock, reportFiles, snapshotFiles, logFiles,
                   metricsFile, diff, childVars, localVars, result, retval,
                   trace, finishCalls, appendOrder>>

R(g) == record[g][1]
Id(g) == R(g).run_id


\* the order of the steps of the finally block of RunGuardian.execute
FinalOrder == <<"aggregate", "diff", "report", "persist", "append">>

\* ----------------------------------------------------- RunGuardian.execute
status_of_always_succeeded(code) == "succeeded"

\* `status = "succeeded" if exit_code == 0 else "failed"`
status_of(code) == IF code = 0 THEN "succeeded" ELSE "failed"

\* SnapshotManager.save_last(reason, extra): the stub written to
\* last.ckpt.json
save_last(reason, extra, now) ==
    [saved_at |-> IsoZ(now), reason |-> reason, error |-> extra]

\* `except KeyboardInterrupt as exc` of execute: the snapshot stub, then finish
ExceptKeyboardInterrupt(g) ==
    /\ interrupted' = [interrupted EXCEPT ![g] = TRUE]
    /\ caught_exception' = [caught_exception EXCEPT ![g] = Some("KeyboardInterrupt")]
    /\ snapshotFiles' = [snapshotFiles EXCEPT ![Id(g)] =
          Some(save_last("keyboard_interrupt", None, clock))]
    /\ lastWrite' = [lastWrite EXCEPT ![g] = "snapshot"]
    /\ record' = [record EXCEPT ![g] = Some(finish(R(g), "interrupted", None, clock))]
    /\ finishCalls' = [finishCalls EXCEPT ![g] = finishCalls[g] + 1]
    /\ pc' = [pc EXCEPT ![g] = "finally"]
    /\ UNCHANGED <<extVars, clock, historyFile, recordFiles, reportFiles, logFiles, metricsFile,
                   history, diff, exit_code, result, retval, trace, loadedAppends,
                   appendOrder>>

ExceptException_skips_finally(g, exc) ==
    /\ caught_exception' = [caught_exception EXCEPT ![g] = Some(exc)]
    /\ snapshotFiles' = [snapshotFiles EXCEPT ![Id(g)] =
          Some(save_last("exception", Some(exc), clock))]
    /\ lastWrite' = [lastWrite EXCEPT ![g] = "snapshot"]
    /\ record' = [record EXCEPT ![g] = Some(finish(R(g), "failed", None, clock))]
    /\ finishCalls' = [finishCalls EXCEPT ![g] = finishCalls[g] + 1]
    /\ pc' = [pc EXCEPT ![g] = "finalized"]
    /\ UNCHANGED <<extVars, clock, historyFile, recordFiles, reportFiles, logFiles, metricsFile,
                   history, diff, exit_code, interrupted, result, retval, trace,
                   loadedAppends, appendOrder>>

\* `except Exception as exc` of execute: the snapshot stub with the error
\* text, then finish
ExceptException(g, exc) ==
    /\ caught_exception' = [caught_exception EXCEPT ![g] = Some(exc)]
    /\ snapshotFiles' = [snapshotFiles EXCEPT ![Id(g)] =
          Some(save_last("exception", Some(exc), clock))]
    /\ lastWrite' = [lastWrite EXCEPT ![g] = "snapshot"]
    /\ record' = [record EXCEPT ![g] = Some(finish(R(g), "failed", None, clock))]
    /\ finishCalls' = [finishCalls EXCEPT ![g] = finishCalls[g] + 1]
    /\ pc' = [pc EXCEPT ![g] = "finally"]
    /\ UNCHANGED <<extVars, clock, historyFile, recordFiles, reportFiles, logFiles, metricsFile,
                   history, diff, exit_code, interrupted, result, retval, trace,
                   loadedAppends, appendOrder>>

\* ------------------------------------------------------------ _run_command
\* subprocess.Popen succeeds and the log file is opened for writing
Popen(g) ==
    /\ pc[g] = "constructed"
    /\ child' = [child EXCEPT ![g] = "running"]
    /\ logFiles' = [logFiles EXCEPT ![Id(g)] = Some("log")]
    /\ lastWrite' = [lastWrite EXCEPT ![g] = "log"]
    /\ pc' = [pc EXCEPT ![g] = "streaming"]
    /\ UNCHANGED <<extVars, clock, historyFile, recordFiles, reportFiles, snapshotFiles,
                   metricsFile, record, history, diff, signalled, execVars>>

\* subprocess.Popen raises (OSError): no child was started; execute catches
\* the exception
PopenFails(g) ==
    /\ pc[g] = "constructed"
    /\ ExceptException(g, "OSError")
    /\ UNCHANGED childVars

\* one iteration of `for line in process.stdout`: echo and log the line
StreamLine(g) ==
    /\ pc[g] = "streaming"
    /\ child[g] = "running"
    /\ logFiles' = [logFiles EXCEPT ![Id(g)] = Some("log")]
    /\ lastWrite' = [lastWrite EXCEPT ![g] = "log"]
    /\ UNCHANGED <<extVars, clock, historyFile, recordFiles, reportFiles, snapshotFiles,
                   metricsFile, pc, record, history, diff, childVars, execVars>>

\* the child's output reached end of file: the loop ends, process.wait() starts
StreamEOF(g) ==
    /\ pc[g] = "streaming"
    /\ child[g] \in {"closed", "exited"}
    /\ pc' = [pc EXCEPT ![g] = "waiting"]
    /\ UNCHANGED <<extVars, clock, fsVars, childVars, record, history, diff, execVars, lastWrite>>

\* an Exception inside the streaming block (the child printed a byte that is
\* not valid text): it leaves _run_command with the child untouched and
\* execute catches it
StreamException(g) ==
    /\ pc[g] = "streaming"
    /\ ExceptException(g, "UnicodeDecodeError")
    /\ UNCHANGED childVars

\* KeyboardInterrupt inside the streaming block: _terminate_process sends
\* SIGINT (send_signal does nothing to a child that already exited) and
\* starts process.wait(timeout=5)
StreamInterrupt(g) ==
    /\ pc[g] = "streaming"
    /\ signalled' = [signalled EXCEPT ![g] = child[g] # "exited"]
    /\ pc' = [pc EXCEPT ![g] = "terminating"]
    /\ UNCHANGED <<extVars, clock, fsVars, child, record, history, diff, execVars, lastWrite>>

\* process.wait(timeout=5) returns because the child exited; _run_command
\* raises the KeyboardInterrupt again and execute catches it
TerminateWaitReturn(g) ==
    /\ pc[g] = "terminating"
    /\ child[g] = "exited"
    /\ ExceptKeyboardInterrupt(g)
    /\ UNCHANGED childVars

\* process.wait(timeout=5) times out with the child alive: process.kill();
\* _run_command raises the KeyboardInterrupt again and execute catches it
TerminateWaitTimeout(g) ==
    /\ pc[g] = "terminating"
    /\ child[g] # "exited"
    /\ child' = [child EXCEPT ![g] = "exited"]
    /\ ExceptKeyboardInterrupt(g)
    /\ UNCHANGED signalled

\* a second KeyboardInterrupt during process.wait(timeout=5): `except
\* Exception` does not catch it, the child is not killed; execute catches it
TerminateWaitInterrupt(g) ==
    /\ pc[g] = "terminating"
    /\ child[g] # "exited"
    /\ ExceptKeyboardInterrupt(g)
    /\ UNCHANGED childVars

\* KeyboardInterrupt while process.wait() blocks after the streaming block:
\* outside the try of _run_command, so _terminate_process is not called;
\* execute catches it
WaitInterrupt(g) ==
    /\ pc[g] = "waiting"
    /\ child[g] # "exited"
    /\ ExceptKeyboardInterrupt(g)
    /\ UNCHANGED childVars

\* process.wait() returns the child's exit status c: the normal branch of
\* the try block of execute
WaitReturn(g, c) ==
    /\ pc[g] = "waiting"
    /\ child[g] = "exited"
    /\ exit_code' = [exit_code EXCEPT ![g] = Some(c)]
    /\ record' = [record EXCEPT ![g] = Some(finish(R(g), status_of(c), Some(c), clock))]
    /\ finishCalls' = [finishCalls EXCEPT ![g] = finishCalls[g] + 1]
    /\ pc' = [pc EXCEPT ![g] = "finally"]
    /\ UNCHANGED <<extVars, clock, fsVars, childVars, history, diff, interrupted,
                   caught_exception, result, retval, trace, lastWrite, loadedAppends,
                   appendOrder>>

\* ------------------------------------------------------- the child process
\* the script writes <workdir>/metrics.json
ChildWriteMetrics(g, m) ==
    /\ child[g] \in {"running", "closed"}
    /\ metricsFile' = Some(m)
    /\ UNCHANGED <<extVars, clock, historyFile, recordFiles, reportFiles, snapshotFiles,
                   logFiles, pc, record, history, diff, childVars, execVars, lastWrite>>

\* the script writes <workdir>/params.json (ParamTracker.save with logged
\* parameters)
ChildWriteParams(g, params) ==
    /\ child[g] \in {"running", "closed"}
    /\ trackerFiles' = [trackerFiles EXCEPT !.params_json = Some(params)]
    /\ UNCHANGED <<runspec, callVars, wizardVars, tracker, lastSave, corruptVars,
                   clock, fsVars, pc, record, history, diff, childVars, execVars,
                   lastWrite>>

\* the child closes its output, which the guardian is streaming, and keeps
\* running
ChildCloseStdout(g) ==
    /\ pc[g] = "streaming"
    /\ child[g] = "running"
    /\ child' = [child EXCEPT ![g] = "closed"]
    /\ UNCHANGED <<extVars, clock, fsVars, signalled, pc, record, history, diff, execVars,
                   lastWrite>>

\* the child exits
ChildExit(g) ==
    /\ child[g] \in {"running", "closed"}
    /\ child' = [child EXCEPT ![g] = "exited"]
    /\ UNCHANGED <<extVars, clock, fsVars, signalled, pc, record, history, diff, execVars,
                   lastWrite>>

\* ------------------------------------------------------- the finally block
\* metrics = self._aggregate_metrics(), merged into the record, the primary
\* metric auto-detected; then diff = diff_against_history(record, history)
AggregateMetrics(g) ==
    /\ pc[g] = "finally"
    /\ LET metrics == aggregate_metrics(metricsFile)
           tracked == [R(g) EXCEPT !.config_values =
                         aggregate_config_values(trackerFiles.params_json, @)]
           merged == [tracked EXCEPT !.metrics = Update(R(g).metrics, metrics)]
           rec == IF metrics = EmptyMap THEN tracked
                  ELSE [merged EXCEPT !.primary_metric =
                          primary_metric_after(R(g).primary_metric, KeyOrder(metrics))]
       IN  /\ record' = [record EXCEPT ![g] = Some(rec)]
           /\ diff' = [diff EXCEPT ![g] = diff_against_history(rec, history[g])]
    /\ trace' = [trace EXCEPT ![g] = trace[g] \o <<"aggregate", "diff">>]
    /\ pc' = [pc EXCEPT ![g] = "report"]
    /\ UNCHANGED <<extVars, clock, fsVars, childVars, history, localVars, result,
                   retval, lastWrite, finishCalls, loadedAppends, appendOrder>>

\* self.reporter.generate(self.record, diff) writes report.md, then
\* self._persist_record() writes run_record.json
ReportAndPersist(g) ==
    /\ pc[g] = "report"
    /\ reportFiles' = [reportFiles EXCEPT ![Id(g)] =
          Some([status |-> R(g).status, reference_type |-> diff[g].reference_type,
                metrics_section |-> render_metrics(R(g), diff[g].reference_record)])]
    /\ recordFiles' = [recordFiles EXCEPT ![Id(g)] = Some(to_dict(R(g)))]
    /\ lastWrite' = [lastWrite EXCEPT ![g] = "record"]
    /\ trace' = [trace EXCEPT ![g] = trace[g] \o <<"report", "persist">>]
    /\ pc' = [pc EXCEPT ![g] = "append"]
    /\ UNCHANGED <<extVars, clock, historyFile, snapshotFiles, logFiles, metricsFile,
                   childVars, record, history, diff, localVars, result,
                   retval, finishCalls, loadedAppends, appendOrder>>

HistoryAppend_rereads_file(g) ==
    /\ pc[g] = "append"
    /\ history' = [history EXCEPT ![g] =
          Append(RunHistoryInit(historyFile), summary(R(g)))]
    /\ historyFile' = Some(history'[g])
    /\ historyValid' = TRUE
    /\ lastWrite' = [lastWrite EXCEPT ![g] = "history"]
    /\ trace' = [trace EXCEPT ![g] = Append(trace[g], "append")]
    /\ appendOrder' = Append(appendOrder, g)
    /\ pc' = [pc EXCEPT ![g] = "finalized"]
    /\ UNCHANGED <<otherVars, corruptedFile, clock, recordFiles, reportFiles, snapshotFiles, logFiles,
                   metricsFile, childVars, record, diff, localVars, result,
                   retval, finishCalls, loadedAppends>>

\* self.history.append(self.record): the summary is appended to the
\* in-memory list and the whole list is written over history.json
HistoryAppend(g) ==
    /\ pc[g] = "append"
    /\ history' = [history EXCEPT ![g] = Append(history[g], summary(R(g)))]
    /\ historyFile' = Some(history'[g])
    /\ historyValid' = TRUE
    /\ lastWrite' = [lastWrite EXCEPT ![g] = "history"]
    /\ trace' = [trace EXCEPT ![g] = Append(trace[g], "append")]
    /\ appendOrder' = Append(appendOrder, g)
    /\ pc' = [pc EXCEPT ![g] = "finalized"]
    /\ UNCHANGED <<otherVars, corruptedFile, clock, recordFiles, reportFiles, snapshotFiles, logFiles,
                   metricsFile, childVars, record, diff, localVars, result,
                   retval, finishCalls, loadedAppends>>

ExecuteEnd_swallow(g) ==
    /\ pc[g] = "finalized"
    /\ result' = [result EXCEPT ![g] =
          IF interrupted[g] THEN "KeyboardInterrupt" ELSE "return"]
    /\ retval' = [retval EXCEPT ![g] =
          IF interrupted[g] THEN None
          ELSE IF exit_code[g] = None \/ exit_code[g] = Some(0) THEN Some(0)
          ELSE exit_code[g]]
    /\ child' = [child EXCEPT ![g] = "none"]
    /\ signalled' = [signalled EXCEPT ![g] = FALSE]
    /\ pc' = [pc EXCEPT ![g] = "done"]
    /\ UNCHANGED <<extVars, clock, fsVars, record, history, diff, localVars,
                   trace, lastWrite, finishCalls, loadedAppends, appendOrder>>

\* after the finally block: `raise KeyboardInterrupt from caught_exception`,
\* `raise caught_exception`, or `return exit_code or 0`; the guardian's
\* process ends and its child is no longer followed
ExecuteEnd(g) ==
    /\ pc[g] = "finalized"
    /\ result' = [result EXCEPT ![g] =
          IF interrupted[g] THEN "KeyboardInterrupt"
          ELSE IF caught_exception[g] # None /\ ~interrupted[g]
          THEN caught_exception[g][1]
          ELSE "return"]
    /\ retval' = [retval EXCEPT ![g] =
          IF interrupted[g] \/ caught_exception[g] # None THEN None
          ELSE IF exit_code[g] = None \/ exit_code[g] = Some(0) THEN Some(0)
          ELSE exit_code[g]]
    /\ child' = [child EXCEPT ![g] = "none"]
    /\ signalled' = [signalled EXCEPT ![g] = FALSE]
    /\ pc' = [pc EXCEPT ![g] = "done"]
    /\ UNCHANGED <<extVars, clock, fsVars, record, history, diff, localVars,
                   trace, lastWrite, finishCalls, loadedAppends, appendOrder>>

\* cli._run_command after `guardian = RunGuardian(spec)`: `result =
\* guardian.execute()` is not inside a try statement, and neither is
\* `return args.func(args)` in main: the handler returns what execute
\* returned, and what execute raises leaves the handler and main
run_command_result(g) ==
    IF result[g] = "return" THEN [returns |-> retval[g], raises |-> None]
    ELSE [returns |-> None, raises |-> Some(result[g])]

\* ---------------------------------------------------------- specifications
Step(g) ==
    \/ Popen(g) \/ PopenFails(g)
    \/ StreamLine(g) \/ StreamEOF(g) \/ StreamException(g) \/ StreamInterrupt(g)
    \/ TerminateWaitReturn(g) \/ TerminateWaitTimeout(g) \/ TerminateWaitInterrupt(g)
    \/ WaitInterrupt(g)
    \/ \E c \in ExitCodes : WaitReturn(g, c)
    \/ AggregateMetrics(g) \/ ReportAndPersist(g) \/ HistoryAppend(g) \/ ExecuteEnd(g)
    \/ ChildCloseStdout(g) \/ ChildExit(g)
    \/ \E m \in MetricMaps : ChildWriteMetrics(g, m)

\* a guardian is constructed only when no other run is in progress
ConstructAlone(g, name) ==
    /\ \A h \in Guardians \ {g} : pc[h] \in {"idle", "done"}
    /\ Construct(g, name)

\* run invocations one after another, the state directory used by one
\* process at a time
Next ==
    \/ Tick
    \/ \E g \in Guardians : \E name \in Names : ConstructAlone(g, name)
    \/ \E g \in Guardians : Step(g)

Spec == Init /\ [][Next]_vars

\* two invocations one after another whose RunSpecs may differ
InitFp ==
    /\ InitBase
    /\ \E rs \in OtherRunSpecs :
          runspec = [g \in Guardians |-> IF g = 1 THEN DefaultRunSpec ELSE rs]
    /\ NoCall
    /\ NoTracker
    /\ NoWizard

SpecFp == InitFp /\ [][Next]_vars

\* between two runs the text of history.json is damaged (a write cut short,
\* a hand edit): it no longer parses as JSON
CorruptHistory ==
    /\ \A g \in Guardians : pc[g] \in {"idle", "done"}
    /\ historyFile # None
    /\ historyValid
    /\ historyValid' = FALSE
    /\ UNCHANGED <<otherVars, corruptedFile, clock, fsVars, childVars, pc, record,
                   history, diff, execVars, lastWrite>>

\* the steps of a run whose script writes no metrics file
StepNoMetrics(g) ==
    \/ Popen(g) \/ PopenFails(g)
    \/ StreamLine(g) \/ StreamEOF(g) \/ StreamException(g) \/ StreamInterrupt(g)
    \/ TerminateWaitReturn(g) \/ TerminateWaitTimeout(g) \/ TerminateWaitInterrupt(g)
    \/ WaitInterrupt(g)
    \/ \E c \in ExitCodes : WaitReturn(g, c)
    \/ AggregateMetrics(g) \/ ReportAndPersist(g) \/ HistoryAppend(g) \/ ExecuteEnd(g)
    \/ ChildCloseStdout(g) \/ ChildExit(g)

\* run invocations whose lifetimes may overlap
NextOverlap ==
    \/ Tick
    \/ \E g \in Guardians : \E name \in Names : Construct(g, name)
    \/ \E g \in Guardians : StepNoMetrics(g)

SpecOverlap == Init /\ [][NextOverlap]_vars

\* run invocations one after another whose scripts may write metrics.json,
\* params.json, both or neither
NextLeftover ==
    \/ Tick
    \/ \E g \in Guardians : ConstructAlone(g, None)
    \/ \E g \in Guardians : StepNoMetrics(g)
    \/ \E g \in Guardians : ChildWriteMetrics(g, [n \in {ACC} |-> 1])
    \/ \E g \in Guardians : ChildWriteParams(g, [k \in {LR} |-> 1])

SpecLeftover == Init /\ [][NextLeftover]_vars

\* run invocations one after another over a history.json that may be
\* damaged between them
NextCorrupt ==
    \/ Tick
    \/ CorruptHistory
    \/ \E g \in Guardians : \E name \in Names : ConstructAlone(g, name)
    \/ \E g \in Guardians : StepNoMetrics(g)

SpecCorrupt == Init /\ [][NextCorrupt]_vars

\* ledger entries of earlier invocations: without metrics, or with an
\* accuracy; the config file of the time had lr 1 or 2
PriorEntry(i, metrics, lr) ==
    [run_id |-> <<"p", DigitChar[i + 1]>>, name |-> None, status |-> "succeeded",
     fingerprint |-> sha256(<<"prior", lr>>), metrics |-> metrics,
     primary_metric |-> IF metrics = EmptyMap THEN None ELSE Some(ACC),
     duration_seconds |-> Some(0), ended_at |-> Some(IsoZ(0)),
     config_values |-> [k \in {CFG_LR} |-> Some(lr)]]

PriorKinds ==
    {<<EmptyMap, 1>>, <<[n \in {ACC} |-> 1], 2>>, <<[n \in {ACC} |-> 2], 1>>}

\* the ledgers a state directory may hold before the invocations
PriorLedgers ==
    UNION {{[i \in 1..n |-> PriorEntry(i, k[i][1], k[i][2])] : k \in [1..n -> PriorKinds]} :
              n \in 0..MaxPrior}

\* a state directory that earlier invocations left a ledger in; `input`
\* keeps that ledger
InitDiff ==
    /\ InitExceptHistory
    /\ \E prior \in PriorLedgers :
          /\ input = Some(prior)
          /\ historyFile = IF prior = <<>> THEN None ELSE Some(prior)
    /\ output = None
    /\ runspec = [g \in Guardians |-> DefaultRunSpec]
    /\ NoTracker
    /\ NoWizard

\* one invocation over that ledger
NextDiff ==
    \/ Tick
    \/ \E name \in Names : ConstructAlone(1, name)
    \/ Step(1)

SpecDiff == InitDiff /\ [][NextDiff]_vars

\* -------------------------------------------- functions called on their own
guardianVars == <<clock, fsVars, childVars, pc, record, history, diff, execVars,
                  lastWrite, runspec, corruptVars>>
lifecycleVars == <<guardianVars, trackerVars, wizardVars>>

\* no run is in progress: the state directory is fresh
InitNoRun ==
    /\ InitBase
    /\ runspec = [g \in Guardians |-> DefaultRunSpec]
    /\ output = None
    /\ NoTracker
    /\ NoWizard

\* metric names a ledger is asked for
VAL_LOSS == <<"v","a","l","_","l","o","s","s">>
TOP_ERROR == <<"T","o","p","_","E","r","r","o","r">>
WER == <<"W","E","R">>
POWER == <<"p","o","w","e","r">>
OTHER_METRIC == <<"o","t","h","e","r">>
BestNames == {VAL_LOSS, TOP_ERROR, WER, POWER, ACC}

\* ledgers of up to MaxRuns entries, each with the metric `name` at a value
\* in 1..MaxValue or without it
LedgersOver(name) ==
    LET maps == {[k \in {OTHER_METRIC} |-> 1]} \cup {[k \in {name} |-> v] : v \in 1..MaxValue}
    IN  UNION {[1..n -> maps] : n \in 0..MaxRuns}

\* the entries of a ledger, numbered by position
Numbered(ms) == [i \in DOMAIN ms |-> [run_id |-> i, metrics |-> ms[i]]]

BestInputs ==
    {[metric_name |-> None, runs |-> Numbered(ms)] : ms \in LedgersOver(ACC)}
    \cup UNION {{[metric_name |-> Some(n), runs |-> Numbered(ms)] : ms \in LedgersOver(n)}
                  : n \in BestNames}

InitBest == InitNoRun /\ input \in BestInputs

\* history.best(metric_name)
CallBest ==
    /\ output = None
    /\ output' = Some(best(input.runs, input.metric_name))
    /\ UNCHANGED <<lifecycleVars, input>>

SpecBest == InitBest /\ [][CallBest]_vars

\* the parameter maps under _tracked_params; 32 is a batch size
ParamValues == {1, 2, 32}
ParamMaps == UNION {[S -> ParamValues] : S \in SUBSET {LR, BATCH_SIZE}}

\* config maps: _tracked_params absent, null or a parameter map; seed absent
\* or a number
ConfigMaps(seeds) ==
    LET tracked == {None} \cup {Some(m) : m \in ParamMaps}
    IN  {[k \in {} |-> None]}
        \cup {[k \in {TRACKED_PARAMS} |-> t] : t \in tracked}
        \cup {[k \in {SEED} |-> Some(n)] : n \in seeds}
        \cup {[k \in {TRACKED_PARAMS, SEED} |-> IF k = SEED THEN Some(n) ELSE t] :
                 t \in tracked, n \in seeds}

DiffConfigsInputs ==
    {[current |-> c, reference_config |-> r,
      full_reference |-> [config_values |-> r, metrics |-> m]] :
        c \in ConfigMaps({1}), r \in ConfigMaps({1, 2}),
        m \in {EmptyMap, [k \in {LR} |-> 2], [k \in {ACC} |-> 1]}}

InitDiffConfigs == InitNoRun /\ input \in DiffConfigsInputs

\* _diff_configs(record.config_values, reference.get("config_values") or {},
\* reference)
CallDiffConfigs ==
    /\ output = None
    /\ output' = Some(diff_configs(input.current, input.reference_config,
                                   input.full_reference))
    /\ UNCHANGED <<lifecycleVars, input>>

SpecDiffConfigs == InitDiffConfigs /\ [][CallDiffConfigs]_vars

\* JSON files a working directory may hold: an object with an accuracy, an
\* object with a null accuracy and an lr, a text that does not parse; the
\* value tells the files apart
JsonDocs(value) ==
    {[valid |-> TRUE, data |-> [k \in {ACC} |-> Some(value)]],
     [valid |-> TRUE, data |-> [k \in {ACC, LR} |-> IF k = ACC THEN None ELSE Some(value)]],
     [valid |-> FALSE, data |-> EmptyMap]}

\* --metric pairs: values float() converts, and values it rejects
MetricPairs ==
    UNION {[S -> {None} \cup {Some(v) : v \in 1..MaxMetric}] : S \in SUBSET {ACC, LR}}

AggregateInputs ==
    {[spec |-> [metrics |-> pairs, metrics_file |-> mf, script_location |-> sl],
      files |-> [p \in MetricsPaths |->
                   CASE p = "metrics.json" -> f1
                     [] p = "logs/metrics.json" -> f4
                     [] p = "src/metrics.json" -> fs
                     [] p = USER_FILE -> fu
                     [] OTHER -> None],
      params_file |-> pf,
      config_values |-> [k \in {CFG_LR} |-> Some(1)]] :
        pairs \in MetricPairs,
        mf \in {None, Some(USER_FILE)},
        sl \in {None, Some("src/metrics.json")},
        f1 \in {None} \cup {Some(d) : d \in JsonDocs(10)},
        f4 \in {None, Some([valid |-> TRUE, data |-> [k \in {ACC} |-> Some(20)]])},
        fs \in {None, Some([valid |-> TRUE, data |-> [k \in {ACC} |-> Some(30)]])},
        fu \in {None} \cup {Some(d) : d \in JsonDocs(40)},
        pf \in {None,
                Some([valid |-> FALSE, data |-> EmptyMap]),
                Some([valid |-> TRUE, data |-> EmptyMap]),
                Some([valid |-> TRUE, data |-> [k \in {LR} |-> 1]])}}

InitAggregate == InitNoRun /\ input \in AggregateInputs

\* self._aggregate_metrics() in the finally block of execute
CallAggregate ==
    /\ output = None
    /\ output' = Some(aggregate_metrics_of(input.spec, input.files,
                                            input.params_file, input.config_values))
    /\ UNCHANGED <<lifecycleVars, input>>

SpecAggregate == InitAggregate /\ [][CallAggregate]_vars

\* metric names: matching an entry of one list, of the other (one of them
\* only when case is ignored, one matching two entries), or of none
LOSS == <<"l","o","s","s">>
F1_SCORE == <<"f","1","_","s","c","o","r","e">>
CUSTOM_X == <<"c","u","s","t","o","m","_","x">>
RECALL == <<"R","e","c","a","l","l">>
RMSE == <<"r","m","s","e">>
STEPS == <<"s","t","e","p","s">>
PrimaryNames == {LOSS, F1_SCORE, CUSTOM_X, RECALL, RMSE, STEPS}

\* the keys of a metrics dict in insertion order: distinct names
NameLists ==
    UNION {{l \in [1..n -> PrimaryNames] : \A i, j \in 1..n : l[i] = l[j] => i = j} :
              n \in 0..MaxNames}

PrimaryInputs ==
    {[primary_metric |-> pm, metric_names |-> l] :
        pm \in {None, Some(LOSS), Some(STEPS)}, l \in NameLists}

InitPrimary == InitNoRun /\ input \in PrimaryInputs

\* execute, finally block: the primary metric of the record after the merge
CallPrimary ==
    /\ output = None
    /\ output' = Some(primary_metric_after(input.primary_metric, input.metric_names))
    /\ UNCHANGED <<lifecycleVars, input>>

SpecPrimary == InitPrimary /\ [][CallPrimary]_vars

\* ------------------------------------------------------------ ParamTracker
\* the metrics file before a script's tracker first saves: absent, a text
\* that does not parse, or an object written earlier
InitialMetricsFiles ==
    {None, Some([valid |-> FALSE, data |-> EmptyMap]),
     Some([valid |-> TRUE, data |-> [k \in {ACC, STEPS} |-> 0]])}

InitTracker ==
    /\ InitBase
    /\ runspec = [g \in Guardians |-> DefaultRunSpec]
    /\ NoCall
    /\ tracker = [params |-> EmptyMap, metrics |-> EmptyMap]
    /\ \E f \in InitialMetricsFiles :
          trackerFiles = [metrics_json |-> f, params_json |-> None]
    /\ lastSave = None
    /\ NoWizard

\* ParamTracker.log_params / log_param with one keyword
LogParams(key, value) ==
    /\ tracker' = [tracker EXCEPT !.params = Update(@, [k \in {key} |-> value])]
    /\ UNCHANGED <<guardianVars, callVars, wizardVars, trackerFiles, lastSave>>

\* ParamTracker.log_metrics / log_metric with one keyword
LogMetrics(key, value) ==
    /\ tracker' = [tracker EXCEPT !.metrics = Update(@, [k \in {key} |-> value])]
    /\ UNCHANGED <<guardianVars, callVars, wizardVars, trackerFiles, lastSave>>

save_overwrites(tr, existing) == Update(tr.params, tr.metrics)

\* ParamTracker.save, the object written to the metrics file (no metadata
\* was logged): params, then metrics, merged over the existing object when
\* the file exists and parses
save(tr, existing) ==
    LET metrics_data == Update(tr.params, tr.metrics)
    IN  IF existing # None /\ existing[1].valid
        THEN Update(existing[1].data, metrics_data)
        ELSE metrics_data

\* ParamTracker.save(): the metrics file, then params.json when parameters
\* were logged
Save ==
    /\ trackerFiles' =
          [metrics_json |->
              Some([valid |-> TRUE, data |-> save(tracker, trackerFiles.metrics_json)]),
           params_json |-> IF tracker.params # EmptyMap THEN Some(tracker.params)
                           ELSE trackerFiles.params_json]
    /\ lastSave' = Some([before |-> trackerFiles.metrics_json, tracker |-> tracker])
    /\ UNCHANGED <<guardianVars, callVars, wizardVars, tracker>>

NextTracker ==
    \/ \E key \in {LR, ACC} : \E value \in 1..MaxValue : LogParams(key, value)
    \/ \E value \in 1..MaxValue : LogMetrics(ACC, value)
    \/ Save

SpecTracker == InitTracker /\ [][NextTracker]_vars

\* ------------------------------------------------------------- SetupWizard
\* a configuration an earlier `init` saved
OldConfig == [k \in {"project_name"} |-> "old"]

\* a saved configuration that names a custom LLM endpoint
OldConfigWithLlm ==
    [k \in {"project_name", "llm_provider", "llm_api_key", "llm_model", "llm_base_url"} |->
        CASE k = "project_name" -> "old"
          [] k = "llm_provider" -> "custom"
          [] k = "llm_api_key" -> "k0"
          [] k = "llm_model" -> "m0"
          [] k = "llm_base_url" -> "http://old"]

InitWizard ==
    /\ InitBase
    /\ runspec = [g \in Guardians |-> DefaultRunSpec]
    /\ NoCall
    /\ NoTracker
    /\ wizard = NoWizardRun
    /\ \E f \in {None, Some(OldConfig), Some(OldConfigWithLlm)} :
          configFiles = [d \in {"cwd", "other"} |-> IF d = "cwd" THEN f ELSE None]

\* run_init_wizard: `return 0 if success else 1` once SetupWizard.run has
\* returned
Returned(w, success, abort) ==
    [w EXCEPT !.pc = "done", !.success = Some(success), !.abort = abort,
              !.status = Some(IF success THEN 0 ELSE 1)]

\* run_init_wizard, SetupWizard.run up to the test of an existing
\* .sciagent.json in the current directory
StartWizard ==
    /\ wizard.pc \in {"idle", "done"}
    /\ wizard' = [NoWizardRun EXCEPT
          !.pc = IF configFiles["cwd"] # None THEN "existing" ELSE "step1",
          !.start = configFiles]
    /\ UNCHANGED <<guardianVars, callVars, trackerVars, configFiles>>

\* the prompt about the existing configuration; a cancelled prompt answers
\* None, which is neither "cancel" nor "ai_only"
ExistingChoice(choice) ==
    /\ wizard.pc = "existing"
    /\ wizard' = IF choice = Some("cancel")
                  THEN Returned(wizard, FALSE, Some("cancel"))
                  ELSE IF choice = Some("ai_only")
                  THEN [wizard EXCEPT !.pc = "ai_update", !.flow = "ai_only"]
                  ELSE [wizard EXCEPT !.pc = "step1"]
    /\ UNCHANGED <<guardianVars, callVars, trackerVars, configFiles>>

\* _update_ai_config_only, up to the call of _configure_llm_api: the saved
\* configuration becomes self.config
UpdateAiOnlyLoad ==
    /\ wizard.pc = "ai_update"
    /\ wizard' = [wizard EXCEPT !.pc = "llm_provider",
                                !.config = configFiles["cwd"][1]]
    /\ UNCHANGED <<guardianVars, callVars, trackerVars, configFiles>>

\* _update_ai_config_only after _configure_llm_api returned: self.config is
\* written over the file, whatever the sub-flow's result
UpdateAiOnlySave(writable) ==
    /\ wizard.pc = "ai_save"
    /\ wizard' = Returned(wizard, writable, None)
    /\ configFiles' = IF writable
                       THEN [configFiles EXCEPT !["cwd"] = Some(wizard.config)]
                       ELSE configFiles
    /\ UNCHANGED <<guardianVars, callVars, trackerVars>>

\* provider_info[provider]["default_model"]
default_model(provider) ==
    IF provider = "openai" THEN "gpt-5.1" ELSE "gpt-3.5-turbo"

\* _configure_llm_api returns (success, skip or cancel): step 3 ends, or
\* _update_ai_config_only goes on to write the file
LeaveProviderFlow(w, returned) ==
    IF w.flow = "full"
    THEN [w EXCEPT !.pc = "step4", !.completed = Append(@, 3),
                   !.llm_result = Some(returned)]
    ELSE [w EXCEPT !.pc = "ai_save", !.llm_result = Some(returned)]

\* _configure_llm_api_inner, the provider menu; a cancelled menu answers
\* None and the sub-flow ends with "cancel"
SelectProvider(provider) ==
    /\ wizard.pc = "llm_provider"
    /\ wizard' = IF provider = None
                  THEN LeaveProviderFlow([wizard EXCEPT !.answers = None], "cancel")
                  ELSE [wizard EXCEPT !.pc = "llm_attempt", !.provider = provider,
                                      !.answers = None]
    /\ UNCHANGED <<guardianVars, callVars, trackerVars, configFiles>>

\* the answers of one round of the inner loop of _configure_llm_api_inner;
\* None is an empty or cancelled answer, or a prompt that was not shown
AttemptAnswers(provider) ==
    {a \in [model : {None, Some("m1")},
            api_key : {None, Some("k1")},
            key_retry : {None, Some("retry_key"), Some("switch_provider"), Some("skip")},
            base_url : {None, Some("http://new")},
            test_connection : {None, Some(TRUE), Some(FALSE)},
            test_ok : {None, Some(TRUE), Some(FALSE)},
            test_retry : {None, Some("retry_key"), Some("retry_model"),
                          Some("switch_provider"), Some("skip_test"), Some("abandon")}] :
        /\ a.api_key # None => a.key_retry = None
        /\ a.api_key = None =>
              /\ a.base_url = None /\ a.test_connection = None
        /\ a.base_url # None => provider = "custom"
        /\ a.test_connection # Some(TRUE) => a.test_ok = None
        /\ a.test_connection = Some(TRUE) => a.test_ok # None
        /\ a.test_ok # Some(FALSE) => a.test_retry = None}

attempt_result_saves_on_abandon(a) ==
    IF a.api_key = None
    THEN IF a.key_retry = Some("retry_key") THEN "continue"
         ELSE IF a.key_retry = Some("switch_provider") THEN "retry_provider"
         ELSE "skip"
    ELSE IF a.test_connection = Some(TRUE) /\ a.test_ok = Some(FALSE)
    THEN IF a.test_retry \in {Some("retry_key"), Some("retry_model")} THEN "continue"
         ELSE IF a.test_retry = Some("switch_provider") THEN "retry_provider"
         ELSE "success"
    ELSE "success"

\* one round of the inner loop: `continue`, or what
\* _configure_llm_api_inner returns
attempt_result(a) ==
    IF a.api_key = None
    THEN IF a.key_retry = Some("retry_key") THEN "continue"
         ELSE IF a.key_retry = Some("switch_provider") THEN "retry_provider"
         ELSE "skip"
    ELSE IF a.test_connection = Some(TRUE) /\ a.test_ok = Some(FALSE)
    THEN IF a.test_retry \in {Some("retry_key"), Some("retry_model")} THEN "continue"
         ELSE IF a.test_retry = Some("switch_provider") THEN "retry_provider"
         ELSE IF a.test_retry = Some("skip_test") THEN "success"
         ELSE "cancel"
    ELSE "success"

save_llm_config_drops_base_url(config, provider, a) ==
    LET named == Update(config,
                    [k \in {"llm_provider", "llm_api_key", "llm_model"} |->
                        CASE k = "llm_provider" -> provider
                          [] k = "llm_api_key" -> a.api_key[1]
                          [] k = "llm_model" ->
                               IF a.model # None THEN a.model[1]
                               ELSE default_model(provider)])
    IN  IF a.base_url # None
        THEN Update(named, [k \in {"llm_base_url"} |-> a.base_url[1]])
        ELSE [k \in DOMAIN named \ {"llm_base_url"} |-> named[k]]

save_llm_config_fresh(config, provider, a) ==
    [k \in {"llm_provider", "llm_api_key", "llm_model"} |->
        CASE k = "llm_provider" -> provider
          [] k = "llm_api_key" -> a.api_key[1]
          [] k = "llm_model" ->
               IF a.model # None THEN a.model[1] ELSE default_model(provider)]

\* the four assignments before `return "success"`: llm_base_url only `if
\* base_url`
save_llm_config(config, provider, a) ==
    LET named == Update(config,
                    [k \in {"llm_provider", "llm_api_key", "llm_model"} |->
                        CASE k = "llm_provider" -> provider
                          [] k = "llm_api_key" -> a.api_key[1]
                          [] k = "llm_model" ->
                               IF a.model # None THEN a.model[1]
                               ELSE default_model(provider)])
    IN  IF a.base_url # None
        THEN Update(named, [k \in {"llm_base_url"} |-> a.base_url[1]])
        ELSE named

\* one round of the inner loop of _configure_llm_api_inner for the chosen
\* provider: model, key, base URL, connection test and the retry menus
ConfigureAttempt(a) ==
    /\ wizard.pc = "llm_attempt"
    /\ LET returned == attempt_result(a)
           w == [wizard EXCEPT !.answers = Some(a)]
       IN  wizard' =
              CASE returned = "continue" -> w
                [] returned = "retry_provider" -> [w EXCEPT !.pc = "llm_provider"]
                [] returned = "success" ->
                     LeaveProviderFlow(
                        [w EXCEPT !.config = save_llm_config(@, wizard.provider[1], a)],
                        "success")
                [] OTHER -> LeaveProviderFlow(w, returned)
    /\ UNCHANGED <<guardianVars, callVars, trackerVars, configFiles>>

\* _step_environment_check: with failed checks the user is asked whether to
\* continue
StepEnvironmentCheck(failed, continue_anyway) ==
    /\ wizard.pc = "step1"
    /\ wizard' = IF failed /\ ~continue_anyway
                  THEN Returned(wizard, FALSE, Some("declined_continue"))
                  ELSE [wizard EXCEPT !.pc = "step2_workdir",
                                      !.completed = Append(@, 1)]
    /\ UNCHANGED <<guardianVars, callVars, trackerVars, configFiles>>

\* _step_project_setup, the working directory prompt; an empty or cancelled
\* answer is None
ProjectWorkdir(workdir_input) ==
    /\ wizard.pc = "step2_workdir"
    /\ wizard' = IF workdir_input = None
                  THEN Returned(wizard, FALSE, Some("empty_prompt"))
                  ELSE [wizard EXCEPT
                          !.pc = "step2_name",
                          !.workdir = workdir_input,
                          !.config = Update(@, [k \in {"workdir"} |-> workdir_input[1]])]
    /\ UNCHANGED <<guardianVars, callVars, trackerVars, configFiles>>

\* _step_project_setup, the project name prompt
ProjectName(project_name) ==
    /\ wizard.pc = "step2_name"
    /\ wizard' = IF project_name = None
                  THEN Returned(wizard, FALSE, Some("empty_prompt"))
                  ELSE [wizard EXCEPT
                          !.pc = "step2_state_dir",
                          !.config = Update(@, [k \in {"project_name"} |-> project_name[1]])]
    /\ UNCHANGED <<guardianVars, callVars, trackerVars, configFiles>>

\* _step_project_setup, the state directory prompt
ProjectStateDir(state_dir) ==
    /\ wizard.pc = "step2_state_dir"
    /\ wizard' = IF state_dir = None
                  THEN Returned(wizard, FALSE, Some("empty_prompt"))
                  ELSE [wizard EXCEPT
                          !.pc = "step3",
                          !.completed = Append(@, 2),
                          !.config = Update(@, [k \in {"state_dir"} |-> state_dir[1]])]
    /\ UNCHANGED <<guardianVars, callVars, trackerVars, configFiles>>

\* _step_advanced_config: nothing, or the Git and AI switches and, when AI
\* is enabled and the user wants to configure it now, the provider
\* sub-flow; always True
StepAdvancedConfig(configure_advanced, enable_ai, configure_now) ==
    /\ wizard.pc = "step3"
    /\ wizard' =
          IF ~configure_advanced
          THEN [wizard EXCEPT !.pc = "step4", !.completed = Append(@, 3)]
          ELSE LET w == [wizard EXCEPT !.config =
                           Update(@, [k \in {"enable_git", "enable_ai"} |->
                                        IF k = "enable_ai" THEN enable_ai ELSE "true"])]
               IN  IF enable_ai = "true" /\ configure_now
                   THEN [w EXCEPT !.pc = "llm_provider"]
                   ELSE [w EXCEPT !.pc = "step4", !.completed = Append(@, 3)]
    /\ UNCHANGED <<guardianVars, callVars, trackerVars, configFiles>>

StepSaveConfig_before_confirm(confirm_save, writable) ==
    /\ wizard.pc = "step4"
    /\ wizard' = IF ~confirm_save
                  THEN Returned(wizard, FALSE, Some("declined_save"))
                  ELSE Returned([wizard EXCEPT !.confirmed = TRUE], writable, None)
    /\ configFiles' = IF writable
                       THEN [configFiles EXCEPT ![wizard.workdir[1]] = Some(wizard.config)]
                       ELSE configFiles
    /\ UNCHANGED <<guardianVars, callVars, trackerVars>>

\* _step_save_config: the confirmation, then json.dump(self.config) into
\* <workdir>/.sciagent.json; a directory that cannot be written leaves the
\* file alone and the step returns False
StepSaveConfig(confirm_save, writable) ==
    /\ wizard.pc = "step4"
    /\ wizard' = IF ~confirm_save
                  THEN Returned(wizard, FALSE, Some("declined_save"))
                  ELSE Returned([wizard EXCEPT !.confirmed = TRUE], writable, None)
    /\ configFiles' = IF confirm_save /\ writable
                       THEN [configFiles EXCEPT ![wizard.workdir[1]] = Some(wizard.config)]
                       ELSE configFiles
    /\ UNCHANGED <<guardianVars, callVars, trackerVars>>

NextWizard ==
    \/ StartWizard
    \/ \E choice \in {None, Some("overwrite"), Some("ai_only"), Some("cancel")} :
          ExistingChoice(choice)
    \/ UpdateAiOnlyLoad
    \/ \E writable \in BOOLEAN : UpdateAiOnlySave(writable)
    \/ \E provider \in {None, Some("openai"), Some("custom")} : SelectProvider(provider)
    \/ \E provider \in {"openai", "custom"} : \E a \in AttemptAnswers(provider) :
          wizard.provider = Some(provider) /\ ConfigureAttempt(a)
    \/ \E failed, continue_anyway \in BOOLEAN :
          StepEnvironmentCheck(failed, continue_anyway)
    \/ \E workdir_input \in {None, Some("cwd"), Some("other")} :
          ProjectWorkdir(workdir_input)
    \/ \E project_name \in {None, Some("proj")} : ProjectName(project_name)
    \/ \E state_dir \in {None, Some(".sciagent")} : ProjectStateDir(state_dir)
    \/ \E configure_advanced, configure_now \in BOOLEAN :
          \E enable_ai \in {"true", "false"} :
             StepAdvancedConfig(configure_advanced, enable_ai, configure_now)
    \/ \E confirm_save, writable \in BOOLEAN : StepSaveConfig(confirm_save, writable)

SpecWizard == InitWizard /\ [][NextWizard]_vars

\* --------------------------------------------------------------- AgentsLLM
\* the environment variables one provider's credential can be in
ProviderEnvVars ==
    {"OPENAI_API_KEY",
     "DEEPSEEK_API_KEY",
     "DASHSCOPE_API_KEY",
     "MODELSCOPE_API_KEY",
     "KIMI_API_KEY", "MOONSHOT_API_KEY",
     "ZHIPU_API_KEY", "GLM_API_KEY",
     "GEMINI_API_KEY", "GOOGLE_API_KEY",
     "CLAUDE_API_KEY", "ANTHROPIC_API_KEY",
     "VLLM_API_KEY", "VLLM_HOST"}

\* os.getenv(name) is a non-empty string
getenv(env, name) == name \in env.set

\* s[-20:]
last20(s) == IF Len(s) <= 20 THEN s ELSE SubSeq(s, Len(s) - 19, Len(s))

_auto_detect_provider_key_first(env, api_key, base_url) ==
    LET actual_api_key == IF api_key # None THEN api_key ELSE env.LLM_API_KEY
        actual_base_url == IF base_url # None THEN base_url ELSE env.LLM_BASE_URL
    IN
    IF actual_api_key # None /\ StartsWith(actual_api_key[1], <<"m","s","-">>) THEN "modelscope" ELSE
    IF actual_api_key # None /\ StartsWith(actual_api_key[1], <<"A","I","z","a">>) THEN "gemini" ELSE
    IF actual_api_key # None /\ StartsWith(actual_api_key[1], <<"s","k","-","a","n","t","-">>) THEN "claude" ELSE
    IF actual_api_key # None /\ lower(actual_api_key[1]) = <<"v","l","l","m">> THEN "vllm" ELSE
    IF actual_api_key # None /\ lower(actual_api_key[1]) = <<"l","o","c","a","l">> THEN "local" ELSE
    IF /\ actual_api_key # None
       /\ ~(StartsWith(actual_api_key[1], <<"s","k","-">>) /\ Len(actual_api_key[1]) > 50)
       /\ Contains(last20(actual_api_key[1]), <<".">>)
    THEN "zhipu" ELSE
    IF getenv(env, "OPENAI_API_KEY") THEN "openai" ELSE
    IF getenv(env, "DEEPSEEK_API_KEY") THEN "deepseek" ELSE
    IF getenv(env, "DASHSCOPE_API_KEY") THEN "qwen" ELSE
    IF getenv(env, "MODELSCOPE_API_KEY") THEN "modelscope" ELSE
    IF getenv(env, "KIMI_API_KEY") \/ getenv(env, "MOONSHOT_API_KEY") THEN "kimi" ELSE
    IF getenv(env, "ZHIPU_API_KEY") \/ getenv(env, "GLM_API_KEY") THEN "zhipu" ELSE
    IF getenv(env, "GEMINI_API_KEY") \/ getenv(env, "GOOGLE_API_KEY") THEN "gemini" ELSE
    IF getenv(env, "CLAUDE_API_KEY") \/ getenv(env, "ANTHROPIC_API_KEY") THEN "claude" ELSE
    IF getenv(env, "VLLM_API_KEY") \/ getenv(env, "VLLM_HOST") THEN "vllm" ELSE
    IF actual_base_url = None THEN "auto" ELSE
    LET base_url_lower == lower(actual_base_url[1]) IN
    IF Contains(base_url_lower, <<"a","p","i",".","o","p","e","n","a","i",".","c","o","m">>) THEN "openai" ELSE
    IF Contains(base_url_lower, <<"a","p","i",".","d","e","e","p","s","e","e","k",".","c","o","m">>) THEN "deepseek" ELSE
    IF Contains(base_url_lower, <<"d","a","s","h","s","c","o","p","e",".","a","l","i","y","u","n","c","s",".","c","o","m">>) THEN "qwen" ELSE
    IF Contains(base_url_lower, <<"a","p","i","-","i","n","f","e","r","e","n","c","e",".","m","o","d","e","l","s","c","o","p","e",".","c","n">>) THEN "modelscope" ELSE
    IF Contains(base_url_lower, <<"a","p","i",".","m","o","o","n","s","h","o","t",".","c","n">>) THEN "kimi" ELSE
    IF Contains(base_url_lower, <<"o","p","e","n",".","b","i","g","m","o","d","e","l",".","c","n">>) THEN "zhipu" ELSE
    IF \/ Contains(base_url_lower, <<"g","e","n","e","r","a","t","i","v","e","l","a","n","g","u","a","g","e",".","g","o","o","g","l","e","a","p","i","s",".","c","o","m">>)
       \/ Contains(base_url_lower, <<"a","i",".","g","o","o","g","l","e",".","d","e","v">>)
    THEN "gemini" ELSE
    IF Contains(base_url_lower, <<"a","p","i",".","a","n","t","h","r","o","p","i","c",".","c","o","m">>) THEN "claude" ELSE
    IF Contains(base_url_lower, <<"l","o","c","a","l","h","o","s","t">>) \/ Contains(base_url_lower, <<"1","2","7",".","0",".","0",".","1">>)
    THEN IF Contains(base_url_lower, <<":","8","0","0","0">>) /\ Contains(base_url_lower, <<"v","l","l","m">>)
         THEN "vllm"
         ELSE IF Contains(base_url_lower, <<":","8","0","8","0">>) \/ Contains(base_url_lower, <<":","7","8","6","0">>)
         THEN "local"
         ELSE IF actual_api_key # None /\ lower(actual_api_key[1]) = <<"v","l","l","m">>
         THEN "vllm"
         ELSE "local"
    ELSE
    IF \E port \in {<<":","8","0","8","0">>, <<":","7","8","6","0">>, <<":","5","0","0","0">>} : Contains(base_url_lower, port)
    THEN "local"
    ELSE "auto"

\* AgentsLLM._auto_detect_provider
_auto_detect_provider(env, api_key, base_url) ==
    LET actual_api_key == IF api_key # None THEN api_key ELSE env.LLM_API_KEY
        actual_base_url == IF base_url # None THEN base_url ELSE env.LLM_BASE_URL
    IN
    IF getenv(env, "OPENAI_API_KEY") THEN "openai" ELSE
    IF getenv(env, "DEEPSEEK_API_KEY") THEN "deepseek" ELSE
    IF getenv(env, "DASHSCOPE_API_KEY") THEN "qwen" ELSE
    IF getenv(env, "MODELSCOPE_API_KEY") THEN "modelscope" ELSE
    IF getenv(env, "KIMI_API_KEY") \/ getenv(env, "MOONSHOT_API_KEY") THEN "kimi" ELSE
    IF getenv(env, "ZHIPU_API_KEY") \/ getenv(env, "GLM_API_KEY") THEN "zhipu" ELSE
    IF getenv(env, "GEMINI_API_KEY") \/ getenv(env, "GOOGLE_API_KEY") THEN "gemini" ELSE
    IF getenv(env, "CLAUDE_API_KEY") \/ getenv(env, "ANTHROPIC_API_KEY") THEN "claude" ELSE
    IF getenv(env, "VLLM_API_KEY") \/ getenv(env, "VLLM_HOST") THEN "vllm" ELSE
    IF actual_api_key # None /\ StartsWith(actual_api_key[1], <<"m","s","-">>) THEN "modelscope" ELSE
    IF actual_api_key # None /\ StartsWith(actual_api_key[1], <<"A","I","z","a">>) THEN "gemini" ELSE
    IF actual_api_key # None /\ StartsWith(actual_api_key[1], <<"s","k","-","a","n","t","-">>) THEN "claude" ELSE
    IF actual_api_key # None /\ lower(actual_api_key[1]) = <<"v","l","l","m">> THEN "vllm" ELSE
    IF actual_api_key # None /\ lower(actual_api_key[1]) = <<"l","o","c","a","l">> THEN "local" ELSE
    IF /\ actual_api_key # None
       /\ ~(StartsWith(actual_api_key[1], <<"s","k","-">>) /\ Len(actual_api_key[1]) > 50)
       /\ Contains(last20(actual_api_key[1]), <<".">>)
    THEN "zhipu" ELSE
    IF actual_base_url = None THEN "auto" ELSE
    LET base_url_lower == lower(actual_base_url[1]) IN
    IF Contains(base_url_lower, <<"a","p","i",".","o","p","e","n","a","i",".","c","o","m">>) THEN "openai" ELSE
    IF Contains(base_url_lower, <<"a","p","i",".","d","e","e","p","s","e","e","k",".","c","o","m">>) THEN "deepseek" ELSE
    IF Contains(base_url_lower, <<"d","a","s","h","s","c","o","p","e",".","a","l","i","y","u","n","c","s",".","c","o","m">>) THEN "qwen" ELSE
    IF Contains(base_url_lower, <<"a","p","i","-","i","n","f","e","r","e","n","c","e",".","m","o","d","e","l","s","c","o","p","e",".","c","n">>) THEN "modelscope" ELSE
    IF Contains(base_url_lower, <<"a","p","i",".","m","o","o","n","s","h","o","t",".","c","n">>) THEN "kimi" ELSE
    IF Contains(base_url_lower, <<"o","p","e","n",".","b","i","g","m","o","d","e","l",".","c","n">>) THEN "zhipu" ELSE
    IF \/ Contains(base_url_lower, <<"g","e","n","e","r","a","t","i","v","e","l","a","n","g","u","a","g","e",".","g","o","o","g","l","e","a","p","i","s",".","c","o","m">>)
       \/ Contains(base_url_lower, <<"a","i",".","g","o","o","g","l","e",".","d","e","v">>)
    THEN "gemini" ELSE
    IF Contains(base_url_lower, <<"a","p","i",".","a","n","t","h","r","o","p","i","c",".","c","o","m">>) THEN "claude" ELSE
    IF Contains(base_url_lower, <<"l","o","c","a","l","h","o","s","t">>) \/ Contains(base_url_lower, <<"1","2","7",".","0",".","0",".","1">>)
    THEN IF Contains(base_url_lower, <<":","8","0","0","0">>) /\ Contains(base_url_lower, <<"v","l","l","m">>)
         THEN "vllm"
         ELSE IF Contains(base_url_lower, <<":","8","0","8","0">>) \/ Contains(base_url_lower, <<":","7","8","6","0">>)
         THEN "local"
         ELSE IF actual_api_key # None /\ lower(actual_api_key[1]) = <<"v","l","l","m">>
         THEN "vllm"
         ELSE "local"
    ELSE
    IF \E port \in {<<":","8","0","8","0">>, <<":","7","8","6","0">>, <<":","5","0","0","0">>} : Contains(base_url_lower, port)
    THEN "local"
    ELSE "auto"

\* AgentsLLM.__init__: self.provider
resolve_provider(env, provider, api_key, base_url) ==
    IF provider # None THEN provider[1]
    ELSE _auto_detect_provider(env, api_key, base_url)

MS_KEY == <<"m","s","-","a","b","c">>
GEMINI_KEY == <<"A","I","z","a","X","y">>
CLAUDE_KEY == <<"s","k","-","a","n","t","-","a","b","c">>
VLLM_KEY == <<"V","L","L","M">>
LOCAL_KEY == <<"l","o","c","a","l">>
\* an sk- key of more than 50 characters, with a dot near its end
LONG_SK_KEY == <<"s","k","-">> \o [i \in 1..50 |-> IF i = 45 THEN "." ELSE "a"]
DOT_KEY == <<"i","d",".","s","e","c","r","e","t">>
\* a dot, but not among the last 20 characters
EARLY_DOT_KEY == <<"x",".">> \o [i \in 1..20 |-> "a"]
PLAIN_KEY == <<"p","l","a","i","n","k","e","y">>
ApiKeys == {MS_KEY, GEMINI_KEY, CLAUDE_KEY, VLLM_KEY, LOCAL_KEY, LONG_SK_KEY,
            DOT_KEY, EARLY_DOT_KEY, PLAIN_KEY}

OPENAI_URL == <<"a","p","i",".","o","p","e","n","a","i",".","c","o","m","/","v","1">>
DEEPSEEK_URL == <<"A","P","I",".","D","e","e","p","S","e","e","k",".","c","o","m">>
ANTHROPIC_URL == <<"a","p","i",".","a","n","t","h","r","o","p","i","c",".","c","o","m">>
VLLM_URL == <<"l","o","c","a","l","h","o","s","t",":","8","0","0","0","/","v","l","l","m">>
LOCAL_URL == <<"1","2","7",".","0",".","0",".","1",":","8","0","8","0">>
LOCALHOST_URL == <<"l","o","c","a","l","h","o","s","t",":","9","0","0","0">>
PORT_URL == <<"g","p","u","1",":","5","0","0","0">>
OTHER_URL == <<"e","x","a","m","p","l","e",".","o","r","g">>
BaseUrls == {OPENAI_URL, DEEPSEEK_URL, ANTHROPIC_URL, VLLM_URL, LOCAL_URL,
             LOCALHOST_URL, PORT_URL, OTHER_URL}

\* the arguments of AgentsLLM(...) and the process environment: every key
\* and base URL with at most one provider credential set, and up to two
\* credentials with a key and a base URL that point at other providers
ProviderInputs ==
    [env : [set : {e \in SUBSET ProviderEnvVars : Cardinality(e) <= 1},
            LLM_API_KEY : {None, Some(MS_KEY)},
            LLM_BASE_URL : {None, Some(DEEPSEEK_URL)}],
     provider : {None, Some("deepseek")},
     api_key : {None} \cup {Some(k) : k \in ApiKeys},
     base_url : {None} \cup {Some(u) : u \in BaseUrls}]
    \cup
    [env : [set : {e \in SUBSET ProviderEnvVars : Cardinality(e) = 2},
            LLM_API_KEY : {None},
            LLM_BASE_URL : {None}],
     provider : {None, Some("deepseek")},
     api_key : {None, Some(GEMINI_KEY), Some(DOT_KEY)},
     base_url : {None, Some(OPENAI_URL)}]

InitProvider == InitNoRun /\ input \in ProviderInputs

\* AgentsLLM.__init__ up to the assignment of self.provider
CallResolveProvider ==
    /\ output = None
    /\ output' = Some(resolve_provider(input.env, input.provider, input.api_key,
                                       input.base_url))
    /\ UNCHANGED <<lifecycleVars, input>>

SpecProvider == InitProvider /\ [][CallResolveProvider]_vars

\* ------------------------------------------------------ ExperimentExporter
\* run names given with --name
ABLATION_LR == <<"a","b","l","a","t","i","o","n","_","l","r">>
BASELINE == <<"b","a","s","e">>
ABLATION == <<"a","b","l","a","t","i","o","n">>

\* a ledger entry as RunHistory.append writes it for a finished record
ExportEntry(i, name, status, metrics, ended_at) ==
    [run_id |-> <<"e", DigitChar[i + 1]>>, name |-> name, status |-> status,
     fingerprint |-> sha256(<<"export">>), metrics |-> metrics,
     primary_metric |-> IF metrics = EmptyMap THEN None ELSE Some(ACC),
     duration_seconds |-> Some(0), ended_at |-> Some(IsoZ(ended_at)),
     config_values |-> EmptyMap]

\* what a run leaves in the ledger: no --name or a name, succeeded with or
\* without an accuracy or failed, ended at second 0 or 1
ExportKinds ==
    {None, Some(ABLATION_LR), Some(BASELINE)}
    \X {<<"succeeded", EmptyMap>>, <<"succeeded", [n \in {ACC} |-> 1]>>,
        <<"succeeded", [n \in {ACC} |-> 2]>>, <<"failed", [n \in {ACC} |-> 2]>>}
    \X {0, 1}

\* the "runs" list of history.json
ExportLedgers ==
    UNION {{[i \in 1..n |-> ExportEntry(i, k[i][1], k[i][2][1], k[i][2][2], k[i][3])] :
               k \in [1..n -> ExportKinds]} : n \in 0..MaxPrior}

\* the time filter of filter_runs: start_time, else ended_at without its
\* "Z", parsed and compared with the cutoff; an entry without either is
\* skipped
is_within_timeframe(run, cutoff) ==
    LET time_str == IF "start_time" \in DOMAIN run /\ run["start_time"] # None
                    THEN run["start_time"]
                    ELSE IF "ended_at" \in DOMAIN run THEN run["ended_at"] ELSE None
    IN  time_str # None /\ time_str[1][2] >= cutoff

\* ExperimentExporter.filter_runs(runs, name_pattern, since_days) at the
\* time `now`; `name_pattern in r.get('name', '')` raises TypeError for an
\* entry whose name is null
filter_runs(runs, name_pattern, since_days, now) ==
    IF name_pattern # None /\ name_pattern[1] # <<>>
          /\ \E i \in DOMAIN runs : "name" \in DOMAIN runs[i] /\ runs[i].name = None
    THEN [raises |-> Some("TypeError"), value |-> <<>>]
    ELSE LET by_name(r) == \/ name_pattern = None \/ name_pattern[1] = <<>>
                           \/ Contains(IF "name" \in DOMAIN r THEN r.name[1] ELSE <<>>,
                                        name_pattern[1])
             in_time(r) == since_days = None
                              \/ is_within_timeframe(r, now - since_days[1])
         IN  [raises |-> None,
              value |-> SelectSeq(SelectSeq(runs, by_name), in_time)]

\* r.get('primary_metric_value', float('-inf')); None stands for -inf
primary_metric_value(r) ==
    IF "primary_metric_value" \in DOMAIN r THEN Some(r["primary_metric_value"])
    ELSE None

\* max(completed_runs, key=...), given the key of every element: the first
\* of the elements with the largest key
python_max(runs, keys) ==
    LET ge(a, b) == b = None \/ (a # None /\ a[1] >= b[1])
        tops == {i \in DOMAIN runs : \A j \in DOMAIN runs : ge(keys[i], keys[j])}
    IN  runs[CHOOSE i \in tops : \A j \in tops : i <= j]

\* ExperimentExporter.generate_summary: the run of the best-result section,
\* None when the document has no such section. The sort by start_time
\* leaves ledger entries, which have no start_time, in their order.
generate_summary(runs, since_days, name_pattern, now) ==
    LET filtered == filter_runs(runs, name_pattern, Some(since_days), now)
        is_completed(r) == r.status \in {"completed", "succeeded"}
        completed_runs == SelectSeq(filtered.value, is_completed)
    IN  IF filtered.raises # None THEN [raises |-> filtered.raises, best |-> None]
        ELSE IF completed_runs = <<>> THEN [raises |-> None, best |-> None]
        ELSE [raises |-> None,
              best |-> Some(python_max(completed_runs,
                          [i \in DOMAIN completed_runs |->
                              primary_metric_value(completed_runs[i])]))]

\* the ledger and the arguments of the summary and table commands, one
\* second after the latest entry
ExportInputs ==
    [runs : ExportLedgers, name_pattern : {None, Some(ABLATION)},
     since_days : {1}, now : {2}]

InitExport == InitNoRun /\ input \in ExportInputs

\* the summary command: generate_summary over the ledger
CallGenerateSummary ==
    /\ output = None
    /\ output' = Some(generate_summary(input.runs, input.since_days,
                                       input.name_pattern, input.now))
    /\ UNCHANGED <<lifecycleVars, input>>

SpecSummary == InitExport /\ [][CallGenerateSummary]_vars

\* the table and ablation commands: filter_runs by name only
CallFilterRuns ==
    /\ output = None
    /\ output' = Some(filter_runs(input.runs, input.name_pattern, None, input.now))
    /\ UNCHANGED <<lifecycleVars, input>>

SpecFilter == InitExport /\ [][CallFilterRuns]_vars

\* --------------------------------------------------------------- LogParser
\* what a line of training output holds: `name: value` pairs in their
\* order, the name written in lower case or capitalised ("loss: 1",
\* "Loss: 1", "acc=2")
Occurrences ==
    [name : {"loss", "acc"}, capital : BOOLEAN, value : 1..MaxValue]
LogLines == UNION {[1..n -> Occurrences] : n \in 0..2}
Logs == UNION {[1..n -> LogLines] : n \in 0..2}

\* the two patterns of _extract_metrics: the first spells the metric names
\* in lower case, the second capitalised; both are applied with
\* re.IGNORECASE
MetricPatterns == <<[capital |-> FALSE], [capital |-> TRUE]>>
pattern_matches(pattern, occ) == TRUE

\* LogParser._standardize_metric_name: METRIC_ALIASES
standardize_metric_name(name) == IF name = "acc" THEN "accuracy" ELSE name

\* result.history[std_name].append(value)
history_append(hist, name, value) ==
    [n \in DOMAIN hist \cup {name} |->
        IF n = name
        THEN (IF n \in DOMAIN hist THEN hist[n] ELSE <<>>) \o <<value>>
        ELSE hist[n]]

\* the matches of one pattern in a line from its i-th pair on, in order
RECURSIVE extract_matches(_, _, _, _)
extract_matches(pattern, line, i, hist) ==
    IF i > Len(line) THEN hist
    ELSE extract_matches(pattern, line, i + 1,
            IF pattern_matches(pattern, line[i])
            THEN history_append(hist, standardize_metric_name(line[i].name),
                                line[i].value)
            ELSE hist)

\* LogParser._extract_metrics(line, result): every pattern in turn over the
\* whole line
extract_metrics(line, hist) ==
    extract_matches(MetricPatterns[2], line, 1,
        extract_matches(MetricPatterns[1], line, 1, hist))

\* LogParser.parse: the history after the lines from the i-th on
RECURSIVE parse_lines(_, _, _)
parse_lines(log, i, hist) ==
    IF i > Len(log) THEN hist
    ELSE parse_lines(log, i + 1, extract_metrics(log[i], hist))

\* LogParser._finalize_metrics: final_<name> is the last value, and
\* initial_<name> the first when there are several
finalize_metrics(hist) ==
    LET finals == {<<"final", n>> : n \in DOMAIN hist}
        initials == {<<"initial", n>> : n \in {m \in DOMAIN hist : Len(hist[m]) > 1}}
    IN  [k \in finals \cup initials |->
            IF k[1] = "final" THEN hist[k[2]][Len(hist[k[2]])] ELSE hist[k[2]][1]]

InitLog == InitNoRun /\ input \in Logs

\* LogParser.parse(log_content)
CallParse ==
    /\ output = None
    /\ output' = LET hist == parse_lines(input, 1, EmptyMap)
                 IN  Some([history |-> hist, final_metrics |-> finalize_metrics(hist)])
    /\ UNCHANGED <<lifecycleVars, input>>

SpecLog == InitLog /\ [][CallParse]_vars

\* ------------------------------------------------------------------ claims
Terminal == {"succeeded", "failed", "interrupted"}
BeforeFinish == {"constructed", "streaming", "waiting", "terminating"}
InFinally == {"finally", "report", "append", "finalized"}
AfterFinish == InFinally \cup {"done"}

IsPrefix(s, t) == Len(s) <= Len(t) /\ SubSeq(t, 1, Len(s)) = s

\* how the try block of execute ended, read from execute's locals
Outcome(g) ==
    IF interrupted[g] THEN "keyboard_interrupt"
    ELSE IF caught_exception[g] # None THEN "exception"
    ELSE IF exit_code[g] # None THEN "exit"
    ELSE "none"

\* C1: whatever the outcome of the command (exit 0, exit non-zero, keyboard
\* interrupt, other exception), the steps of the finally block run in the
\* order aggregate, diff, report, persist, append; when execute has returned
\* or re-raised all five have run, exactly one entry was appended to the
\* ledger, and the ledger is the file the guardian wrote last.
C1_FinalizationOrder ==
    \A g \in Guardians :
        /\ IsPrefix(trace[g], FinalOrder)
        /\ pc[g] \notin AfterFinish => trace[g] = <<>>
        /\ pc[g] = "done" =>
              /\ trace[g] = FinalOrder
              /\ lastWrite[g] = "history"
              /\ Cardinality({i \in DOMAIN appendOrder : appendOrder[i] = g}) = 1
              /\ Len(history[g]) >= 1
              /\ history[g][Len(history[g])] = summary(R(g))

C1_Witness ==
    /\ pc[1] = "done" /\ result[1] = "KeyboardInterrupt"
    /\ pc[2] = "done" /\ result[2] = "UnicodeDecodeError"

\* the (status, exit_code) pairs the branches of execute pass to finish
PersistedPairs ==
    {<<"succeeded", Some(0)>>, <<"interrupted", None>>, <<"failed", None>>}
        \cup {<<"failed", Some(c)>> : c \in ExitCodes \ {0}}

\* C2: the record's (status, exit_code) follows from how the command ended:
\* exit 0 gives (succeeded, 0), exit c # 0 gives (failed, c), a keyboard
\* interrupt gives (interrupted, none) with a keyboard_interrupt snapshot
\* stub, another exception gives (failed, none) with an exception snapshot
\* stub; run_record.json never holds another combination besides the pending
\* record of construction, and the ledger holds only terminal statuses.
C2_StatusByOutcome ==
    /\ \A g \in Guardians : pc[g] \in AfterFinish =>
          /\ Outcome(g) = "exit" =>
                /\ R(g).exit_code = exit_code[g]
                /\ R(g).status = IF exit_code[g] = Some(0) THEN "succeeded" ELSE "failed"
          /\ Outcome(g) = "keyboard_interrupt" =>
                /\ R(g).status = "interrupted" /\ R(g).exit_code = None
                /\ pc[g] \in InFinally =>
                      /\ snapshotFiles[Id(g)] # None
                      /\ snapshotFiles[Id(g)][1].reason = "keyboard_interrupt"
          /\ Outcome(g) = "exception" =>
                /\ R(g).status = "failed" /\ R(g).exit_code = None
                /\ pc[g] \in InFinally =>
                      /\ snapshotFiles[Id(g)] # None
                      /\ snapshotFiles[Id(g)][1].reason = "exception"
          /\ Outcome(g) # "none"
    /\ \A id \in RunIds : recordFiles[id] # None =>
          <<recordFiles[id][1].status, recordFiles[id][1].exit_code>>
              \in PersistedPairs \cup {<<"pending", None>>}
    /\ historyFile # None =>
          \A i \in DOMAIN historyFile[1] : historyFile[1][i].status \in Terminal

C2_Witness ==
    /\ pc[1] = "done" /\ R(1).status = "failed" /\ R(1).exit_code = Some(1)
    /\ pc[2] = "finalized" /\ R(2).status = "interrupted"
    /\ snapshotFiles[Id(2)] # None /\ snapshotFiles[Id(2)][1].reason = "keyboard_interrupt"

\* C3: an interrupted command makes execute raise KeyboardInterrupt and a
\* command that raised makes it raise that exception; neither is swallowed,
\* and when execute raises, the record with its terminal status was written
\* to run_record.json and the run's entry was appended to the ledger.
C3_ReraiseAfterFinalization ==
    \A g \in Guardians :
        /\ pc[g] = "finalized" =>
              /\ R(g).status \in Terminal
              /\ recordFiles[Id(g)] = Some(to_dict(R(g)))
              /\ historyFile # None
              /\ historyFile[1][Len(historyFile[1])] = summary(R(g))
        /\ pc[g] = "done" =>
              /\ Outcome(g) = "keyboard_interrupt" => result[g] = "KeyboardInterrupt"
              /\ Outcome(g) = "exception" => result[g] = caught_exception[g][1]
              /\ Outcome(g) = "exit" => result[g] = "return"
              /\ trace[g] = FinalOrder
        /\ result[g] # "none" => pc[g] = "done"

C3_Witness ==
    /\ pc[1] = "done" /\ result[1] = "OSError"
    /\ pc[2] = "done" /\ result[2] = "KeyboardInterrupt"

\* C4: the record is pending from construction until finish is called;
\* finish is called exactly once, on the branch the command's outcome
\* selects; from then on the status is terminal, ended_at is set,
\* duration_seconds is ended_at - started_at, and the status does not change
\* again.
C4_FinishOnce ==
    /\ [](\A g \in Guardians :
            /\ pc[g] = "idle" => record[g] = None /\ finishCalls[g] = 0
            /\ pc[g] \in BeforeFinish =>
                  /\ finishCalls[g] = 0
                  /\ R(g).status = "pending"
                  /\ R(g).ended_at = None /\ R(g).duration_seconds = None
            /\ pc[g] \in AfterFinish =>
                  /\ finishCalls[g] = 1
                  /\ R(g).status \in Terminal
                  /\ R(g).ended_at # None
                  /\ R(g).duration_seconds = Some(R(g).ended_at[1] - R(g).started_at))
    /\ [][\A g \in Guardians :
            (record[g] # None /\ R(g).status \in Terminal) =>
                /\ record'[g] # None
                /\ record'[g][1].status = R(g).status
                /\ record'[g][1].ended_at = R(g).ended_at
                /\ record'[g][1].duration_seconds = R(g).duration_seconds]_vars

C4_Witness ==
    \E g \in Guardians :
        /\ pc[g] = "done"
        /\ R(g).started_at = 0 /\ R(g).ended_at = Some(1)
        /\ R(g).duration_seconds = Some(1)
        /\ R(g).status = "succeeded"
        /\ R(g).metrics # EmptyMap

\* C5: construction writes run_record.json with status pending before the
\* command starts, so a record file exists whenever the child runs; the file
\* keeps the pending record (no exit code, no end time) until the persist
\* step of the finally block, which writes the terminal status.
C5_PendingOnDiskUntilPersist ==
    \A g \in Guardians :
        /\ child[g] \in {"running", "closed"} => recordFiles[Id(g)] # None
        /\ pc[g] \in BeforeFinish \cup {"finally", "report"} =>
              /\ recordFiles[Id(g)] # None
              /\ recordFiles[Id(g)][1].run_id = Id(g)
              /\ recordFiles[Id(g)][1].status = "pending"
              /\ recordFiles[Id(g)][1].exit_code = None
              /\ recordFiles[Id(g)][1].ended_at = None
        /\ pc[g] \in {"append", "finalized"} =>
              /\ recordFiles[Id(g)] = Some(to_dict(R(g)))
              /\ recordFiles[Id(g)][1].status \in Terminal

C5_Witness ==
    \E g \in Guardians :
        /\ pc[g] = "report"
        /\ child[g] = "running"
        /\ R(g).status = "failed"
        /\ recordFiles[Id(g)][1].status = "pending"

\* C6: a guardian that caught a keyboard interrupt does not reach the
\* finally block with its child still running and never sent SIGINT.
C6_InterruptedChildSignalled ==
    \A g \in Guardians :
        (pc[g] \in InFinally /\ interrupted[g] /\ child[g] \in {"running", "closed"})
            => signalled[g]

\* C7: on every path through execute, _aggregate_metrics has read the
\* metrics file only after the child, if one was started, terminated.
C7_AggregateAfterChildExit ==
    \A g \in Guardians :
        pc[g] \in {"report", "append", "finalized"} => child[g] \in {"none", "exited"}

\* the runs list of history.json
Ledger == IF historyFile = None THEN <<>> ELSE historyFile[1]

\* C8: with runs executed one after another, every write of history.json
\* keeps the entries it held, unchanged and in place, and adds one summary
\* at the end; after n runs the ledger holds the n summaries in completion
\* order, and latest() of the store that appended last is its own summary.
C8_AppendOnlyLedger ==
    /\ [](/\ Len(Ledger) = Len(appendOrder)
          /\ \A i \in DOMAIN appendOrder : Ledger[i] = summary(R(appendOrder[i]))
          /\ appendOrder # <<>> =>
                /\ historyFile = Some(history[appendOrder[Len(appendOrder)]])
                /\ latest(history[appendOrder[Len(appendOrder)]])
                      = Some(summary(R(appendOrder[Len(appendOrder)])))
                /\ latest(Ledger) = Some(summary(R(appendOrder[Len(appendOrder)]))))
    /\ [][historyFile' # historyFile =>
            /\ historyFile' # None
            /\ Len(historyFile'[1]) = Len(Ledger) + 1
            /\ SubSeq(historyFile'[1], 1, Len(Ledger)) = Ledger]_vars

C8_Witness ==
    /\ pc[1] = "done" /\ pc[2] = "done"
    /\ Len(Ledger) = 2
    /\ appendOrder = <<2, 1>>
    /\ Ledger[1].status = "interrupted" /\ Ledger[2].status = "succeeded"

\* position of guardian g in the order of appends (0: it has not appended)
AppendPos(g) ==
    IF \E i \in DOMAIN appendOrder : appendOrder[i] = g
    THEN CHOOSE i \in DOMAIN appendOrder : appendOrder[i] = g
    ELSE 0

\* guardian b loaded the ledger before guardian a appended, and b appended
\* after a, b's write being the latest
LostUpdateCase(a, b) ==
    /\ a # b
    /\ AppendPos(a) > 0 /\ AppendPos(b) > AppendPos(a)
    /\ loadedAppends[b] < AppendPos(a)
    /\ AppendPos(b) = Len(appendOrder)

\* C9: when guardian B was constructed before guardian A appended and B
\* appends after A, history.json is B's in-memory copy plus B's entry: it
\* has fewer entries than appends were made, its last entry is B's, and
\* (the run ids being distinct) none is A's, although both record files
\* exist with their terminal records.
C9_LostLedgerEntry ==
    \A a, b \in Guardians :
        LostUpdateCase(a, b) =>
            /\ Len(Ledger) < Len(appendOrder)
            /\ Ledger = history[b]
            /\ Ledger[Len(Ledger)] = summary(R(b))
            /\ Id(a) # Id(b) =>
                  /\ \A i \in DOMAIN Ledger : Ledger[i].run_id # Id(a)
                  /\ recordFiles[Id(a)] = Some(to_dict(R(a)))
                  /\ recordFiles[Id(b)] = Some(to_dict(R(b)))
                  /\ R(a).status \in Terminal /\ R(b).status \in Terminal

C9_Witness ==
    /\ LostUpdateCase(1, 2)
    /\ Id(1) # Id(2)
    /\ pc[1] = "done" /\ pc[2] = "done"
    /\ Len(Ledger) = 1

\* C10: no two guardians constructed against the state directory have the
\* same run id.
C10_UniqueRunIds ==
    \A g, h \in Guardians :
        (g # h /\ pc[g] # "idle" /\ pc[h] # "idle") => Id(g) # Id(h)

\* the four inputs of the fingerprint agree for guardians g and h: command,
\* metadata, path and parsed content of the config sources, environment
SameFingerprintInputs(g, h) ==
    /\ runspec[g].command = runspec[h].command
    /\ runspec[g].metadata = runspec[h].metadata
    /\ canonical_payload(runspec[g].config_sources)
          = canonical_payload(runspec[h].config_sources)
    /\ runspec[g].env_snapshot = runspec[h].env_snapshot

\* C11: the fingerprint of a record is the one computed at construction at
\* every point of the run, run_record.json and the ledger entry carry it,
\* and two runs whose command, metadata, config sources (path and parsed
\* content) and environment snapshot agree have the same fingerprint,
\* whatever their names, start times, exit codes, statuses and metrics.
C11_FingerprintOfInputs ==
    /\ \A g \in Guardians : pc[g] # "idle" =>
          /\ R(g).fingerprint = guardian_build_fingerprint(g)
          /\ pc[g] # "done" =>
                /\ recordFiles[Id(g)] # None
                /\ recordFiles[Id(g)][1].fingerprint = R(g).fingerprint
    /\ \A i \in DOMAIN appendOrder :
          Ledger[i].fingerprint = R(appendOrder[i]).fingerprint
    /\ \A g, h \in Guardians :
          (pc[g] # "idle" /\ pc[h] # "idle" /\ SameFingerprintInputs(g, h))
              => R(g).fingerprint = R(h).fingerprint

C11_Witness ==
    /\ pc[1] = "done" /\ pc[2] = "done"
    /\ SameFingerprintInputs(1, 2)
    /\ runspec[1].config_sources # runspec[2].config_sources
    /\ R(1).name # R(2).name
    /\ R(1).started_at # R(2).started_at
    /\ R(1).status = "interrupted" /\ R(2).status = "failed"
    /\ R(2).exit_code = Some(1)
    /\ R(1).metrics # R(2).metrics
    /\ Ledger[1].fingerprint = Ledger[2].fingerprint

\* C12: constructing the store over a history.json that does not parse
\* leaves the guardian constructed with an empty run list, history.json gone
\* and history.corrupted holding the damaged content; the append that
\* follows writes a history.json holding that run's entry alone and leaves
\* history.corrupted as it is.
C12_CorruptedLedgerSetAside ==
    [][\A g \in Guardians :
          /\ (pc[g] = "idle" /\ pc'[g] # "idle"
                /\ historyFile # None /\ ~historyValid) =>
                /\ pc'[g] = "constructed"
                /\ history'[g] = <<>>
                /\ historyFile' = None
                /\ corruptedFile' = historyFile
          /\ (pc[g] = "append" /\ pc'[g] # "append"
                /\ historyFile = None /\ corruptedFile # None) =>
                /\ historyFile' = Some(<<summary(record'[g][1])>>)
                /\ historyValid'
                /\ corruptedFile' = corruptedFile]_vars

C12_Witness ==
    /\ pc[1] = "done" /\ pc[2] = "done"
    /\ appendOrder = <<1, 2>>
    /\ corruptedFile = Some(<<summary(R(1))>>)
    /\ historyFile = Some(<<summary(R(2))>>)
    /\ historyValid
    /\ Id(1) # Id(2)

\* the names whose lower-cased text contains loss or error or starts with wer
LowerIsBetter == {VAL_LOSS, TOP_ERROR, WER}

\* C13: best returns none without a metric name or when no entry has the
\* metric; otherwise an entry that has it, with the least value when the
\* lower-cased name contains loss or error or starts with wer, and with the
\* greatest value for the other names.
C13_BestEntry ==
    output # None =>
        LET runs == input.runs
            having == IF input.metric_name = None THEN {}
                      ELSE {i \in DOMAIN runs :
                              input.metric_name[1] \in DOMAIN runs[i].metrics}
            r == output[1]
        IN  IF having = {} THEN r = None
            ELSE LET n == input.metric_name[1]
                 IN  /\ r # None
                     /\ \E i \in having : r[1] = runs[i]
                     /\ n \in DOMAIN r[1].metrics
                     /\ \A j \in having :
                           IF n \in LowerIsBetter
                           THEN r[1].metrics[n] <= runs[j].metrics[n]
                           ELSE r[1].metrics[n] >= runs[j].metrics[n]

C13_Witness ==
    /\ output # None /\ output[1] # None
    /\ input.metric_name = Some(POWER)
    /\ Len(input.runs) = 3
    /\ POWER \notin DOMAIN input.runs[1].metrics
    /\ input.runs[2].metrics[POWER] = 1
    /\ input.runs[3].metrics[POWER] = 2
    /\ output[1][1].run_id = 3

\* the diff of guardian g's finally block has been computed
DiffDone(g) == pc[g] \in {"report", "append", "finalized", "done"}

\* the ledger as it was when guardian g was constructed: the entries the
\* state directory started with, then those of the runs appended before
LoadedLedger(g) ==
    input[1] \o [i \in 1..loadedAppends[g] |-> summary(R(appendOrder[i]))]

\* C14: the reference of a run's diff is the best entry, for the record's
\* primary metric, of the ledger loaded at construction when some entry
\* holds that metric (type "best"); otherwise the last loaded entry (type
\* "previous"); otherwise there is no reference, no type, no config
\* difference and no metric delta. The reference is always one of the
\* entries loaded at construction, and the run's own entry is appended
\* after them.
C14_DiffReference ==
    \A g \in Guardians : DiffDone(g) =>
        LET ledger == LoadedLedger(g)
            pm == R(g).primary_metric
            d == diff[g]
            holders == IF pm = None THEN {}
                       ELSE {i \in DOMAIN ledger : pm[1] \in DOMAIN ledger[i].metrics}
            val(i) == ledger[i].metrics[pm[1]]
        IN  /\ holders # {} =>
                  /\ d.reference_type = Some("best")
                  /\ \E i \in holders :
                        /\ d.reference_run = Some(ledger[i])
                        /\ \A j \in holders :
                              IF pm[1] \in LowerIsBetter THEN val(i) <= val(j)
                              ELSE val(i) >= val(j)
            /\ (holders = {} /\ ledger # <<>>) =>
                  /\ d.reference_type = Some("previous")
                  /\ d.reference_run = Some(ledger[Len(ledger)])
            /\ ledger = <<>> =>
                  /\ d.reference_run = None /\ d.reference_type = None
                  /\ d.config_differences = <<>> /\ d.metric_delta = None
            /\ d.reference_run # None =>
                  \E i \in DOMAIN ledger : d.reference_run = Some(ledger[i])
            /\ \A i \in DOMAIN appendOrder :
                  appendOrder[i] = g => i > loadedAppends[g]

\* a run with a primary metric over a ledger whose best entry is not its
\* last one, and whose config differs from the reference's
C14_Witness ==
    \E g \in Guardians :
        /\ pc[g] = "done"
        /\ Len(LoadedLedger(g)) >= 2
        /\ diff[g].reference_type = Some("best")
        /\ diff[g].reference_run # Some(LoadedLedger(g)[Len(LoadedLedger(g))])
        /\ diff[g].config_differences # <<>>
        /\ diff[g].metric_delta # None

\* the file _aggregate_metrics reads: the one --metrics-file names, else the
\* first one present among metrics.json, outputs/, results/, logs/, output/
\* and the script's directory; None when there is none
ChosenFile ==
    LET f(p) == input.files[p]
    IN  IF input.spec.metrics_file # None THEN f(input.spec.metrics_file[1])
        ELSE IF f("metrics.json") # None THEN f("metrics.json")
        ELSE IF f("outputs/metrics.json") # None THEN f("outputs/metrics.json")
        ELSE IF f("results/metrics.json") # None THEN f("results/metrics.json")
        ELSE IF f("logs/metrics.json") # None THEN f("logs/metrics.json")
        ELSE IF f("output/metrics.json") # None THEN f("output/metrics.json")
        ELSE IF input.spec.script_location # None THEN f(input.spec.script_location[1])
        ELSE None

\* the numeric entries of a chosen file
FileFloats ==
    IF ChosenFile = None \/ ~ChosenFile[1].valid THEN {}
    ELSE {k \in DOMAIN ChosenFile[1].data : ChosenFile[1].data[k] # None}

HigherIsBetterList ==
    << <<"a","c","c","u","r","a","c","y">>, <<"a","c","c">>,
       <<"f","1","_","s","c","o","r","e">>, <<"f","1">>,
       <<"p","r","e","c","i","s","i","o","n">>, <<"r","e","c","a","l","l">>,
       <<"a","u","c">>, <<"m","a","p">>, <<"a","p">> >>
LowerIsBetterList ==
    << <<"l","o","s","s">>, <<"e","r","r","o","r">>, <<"m","s","e">>,
       <<"m","a","e">>, <<"r","m","s","e">> >>

\* the name matches the list entry, case ignored
Matches(entry, name) == Contains(lower(name), entry)

\* the positions of the list entries that match some metric name
MatchingEntries(list) ==
    {i \in DOMAIN list :
        \E j \in DOMAIN input.metric_names : Matches(list[i], input.metric_names[j])}

\* the result is a metric name matching the earliest matching entry
PicksEarliest(list) ==
    LET first == CHOOSE i \in MatchingEntries(list) :
                    \A j \in MatchingEntries(list) : i <= j
    IN  /\ output[1] # None
        /\ \E j \in DOMAIN input.metric_names : output[1][1] = input.metric_names[j]
        /\ Matches(list[first], output[1][1])

C18_RunHandlerExitCode ==
    \A g \in Guardians : pc[g] = "done" =>
        /\ run_command_result(g).raises = None
        /\ Outcome(g) = "exit" => run_command_result(g).returns = exit_code[g]
        /\ Outcome(g) \in {"keyboard_interrupt", "exception"} =>
              /\ run_command_result(g).returns = Some(0)
              /\ R(g).status \in {"interrupted", "failed"}

\* the keys a metrics file holds
HeldKeys(file) == IF file = None \/ ~file[1].valid THEN {} ELSE DOMAIN file[1].data

\* C19: after a save the metrics file holds the keys it held before the
\* save and every key logged so far, each logged key with its logged value
\* (the metric's when a parameter has the same name), every other key with
\* the value it had: no save removes a key an earlier save wrote.
C19_SaveMerges ==
    lastSave # None =>
        LET before == lastSave[1].before
            logged == lastSave[1].tracker
            file == trackerFiles.metrics_json
        IN  /\ file # None /\ file[1].valid
            /\ DOMAIN file[1].data =
                  HeldKeys(before) \cup DOMAIN logged.params \cup DOMAIN logged.metrics
            /\ \A k \in DOMAIN file[1].data :
                  file[1].data[k] =
                     IF k \in DOMAIN logged.metrics THEN logged.metrics[k]
                     ELSE IF k \in DOMAIN logged.params THEN logged.params[k]
                     ELSE before[1].data[k]

\* a second save over the file of a first one: lr was logged anew, acc is
\* both a parameter and a metric, steps was in the file from the start
C19_Witness ==
    /\ lastSave # None
    /\ LR \in HeldKeys(lastSave[1].before)
    /\ lastSave[1].before[1].data[LR] = 1
    /\ trackerFiles.metrics_json[1].data =
          [k \in {ACC, STEPS, LR} |-> CASE k = ACC -> 1 [] k = STEPS -> 0 [] k = LR -> 2]
    /\ lastSave[1].tracker.params = [k \in {ACC, LR} |-> 2]

\* C20: in the full wizard flow .sciagent.json changes only in step 4, after
\* steps 1, 2 and 3 completed and the user confirmed, and what is written is
\* the accumulated configuration, into the chosen working directory; a
\* wizard that was aborted (cancel at the existing-configuration prompt,
\* no to continuing after a failed check, an empty or cancelled prompt of
\* step 2, no to the save confirmation) leaves every .sciagent.json as it
\* was, creates none, and ends with exit status 1.
C20_ConfigWrittenOnlyInStep4 ==
    wizard.pc # "idle" =>
    /\ (wizard.flow = "full" /\ configFiles # wizard.start) =>
          /\ wizard.pc = "done"
          /\ wizard.completed = <<1, 2, 3>>
          /\ wizard.confirmed
          /\ wizard.status = Some(0)
          /\ configFiles = [wizard.start EXCEPT ![wizard.workdir[1]] = Some(wizard.config)]
    /\ (wizard.pc = "done" /\ wizard.abort # None) =>
          /\ configFiles = wizard.start
          /\ wizard.status = Some(1)
    /\ (wizard.pc # "done" /\ wizard.flow = "full") => configFiles = wizard.start

\* over an existing configuration the user chose to reconfigure, went
\* through the three steps and declined to save
C20_Witness ==
    /\ wizard.pc = "done"
    /\ wizard.abort = Some("declined_save")
    /\ wizard.completed = <<1, 2, 3>>
    /\ wizard.start["cwd"] = Some(OldConfig)
    /\ wizard.workdir = Some("cwd")
    /\ configFiles["cwd"] = Some(OldConfig)

\* the keys the provider sub-flow may write
LlmKeys == {"llm_provider", "llm_api_key", "llm_model", "llm_base_url"}

\* C21: the AI-configuration-only update completes none of the steps 1 to 4,
\* passes only through the provider sub-flow, and leaves in .sciagent.json
\* every key other than llm_provider, llm_api_key, llm_model and
\* llm_base_url with the value it had; when the sub-flow did not end with
\* success the file has the content it had before.
C21_AiOnlyUpdateKeepsOtherKeys ==
    wizard.flow = "ai_only" =>
    /\ wizard.completed = <<>>
    /\ ~wizard.confirmed
    /\ wizard.pc \in {"ai_update", "llm_provider", "llm_attempt", "ai_save", "done"}
    /\ configFiles["other"] = wizard.start["other"]
    /\ wizard.start["cwd"] # None /\ configFiles["cwd"] # None
    /\ LET old == wizard.start["cwd"][1]
           new == configFiles["cwd"][1]
       IN  /\ \A k \in (DOMAIN old \cup DOMAIN new) \ LlmKeys :
                 k \in DOMAIN old /\ k \in DOMAIN new /\ new[k] = old[k]
           /\ wizard.llm_result # Some("success") => new = old

\* an AI-only update over a configuration without LLM keys ended with a
\* successful sub-flow and rewrote the file
C21_Witness ==
    /\ wizard.pc = "done"
    /\ wizard.flow = "ai_only"
    /\ wizard.llm_result = Some("success")
    /\ wizard.success = Some(TRUE)
    /\ wizard.start["cwd"] = Some(OldConfig)
    /\ configFiles["cwd"] # wizard.start["cwd"]
    /\ configFiles["cwd"][1]["project_name"] = "old"

\* the answers of a round that reaches the assignments before
\* `return "success"`: a key was entered and the test passed, was not
\* asked for, or was skipped after failing
SavingAnswers(a) ==
    /\ a.api_key # None
    /\ \/ a.test_connection # Some(TRUE)
       \/ a.test_ok = Some(TRUE)
       \/ a.test_retry = Some("skip_test")

\* C22: a step of the provider sub-flow changes the configuration map only
\* when it ends with success, and then it sets llm_provider, llm_api_key and
\* llm_model; an empty key followed by skip, abandoning, retrying the key or
\* the model and switching the provider leave the map as it was; switching
\* goes back to the provider menu, the retries stay with the same provider,
\* and the sub-flow is left only with success, skip or cancel.
C22_ProviderFlowWritesOnSuccess ==
    [][/\ wizard.pc = "llm_provider" =>
             /\ wizard'.config = wizard.config
             /\ wizard'.pc \in {"llm_attempt", "step4", "ai_save"}
             /\ wizard'.pc # "llm_attempt" => wizard'.llm_result = Some("cancel")
       /\ wizard.pc = "llm_attempt" =>
             /\ wizard'.answers # None
             /\ LET a == wizard'.answers[1]
                IN  /\ SavingAnswers(a) =>
                          /\ wizard'.llm_result = Some("success")
                          /\ wizard'.config["llm_provider"] = wizard.provider[1]
                          /\ wizard'.config["llm_api_key"] = a.api_key[1]
                          /\ wizard'.config["llm_model"] =
                                IF a.model # None THEN a.model[1]
                                ELSE default_model(wizard.provider[1])
                    /\ ~SavingAnswers(a) =>
                          /\ wizard'.config = wizard.config
                          /\ wizard'.llm_result # Some("success")
                    /\ (a.key_retry = Some("switch_provider")
                            \/ a.test_retry = Some("switch_provider")) =>
                          wizard'.pc = "llm_provider"
                    /\ (a.key_retry = Some("retry_key")
                            \/ a.test_retry \in {Some("retry_key"), Some("retry_model")}) =>
                          /\ wizard'.pc = "llm_attempt"
                          /\ wizard'.provider = wizard.provider
                    /\ wizard'.pc \in {"llm_attempt", "llm_provider", "step4", "ai_save"}
                    /\ wizard'.pc \in {"step4", "ai_save"} =>
                          wizard'.llm_result \in {Some("success"), Some("skip"), Some("cancel")}
      ]_vars

\* the connection test failed, the user abandoned, and the sub-flow ended
\* with cancel and a configuration map without any LLM key
C22_Witness ==
    /\ wizard.llm_result = Some("cancel")
    /\ wizard.answers # None
    /\ wizard.answers[1].test_retry = Some("abandon")
    /\ wizard.pc = "step4"
    /\ DOMAIN wizard.config \cap LlmKeys = {}

\* C30: a successful sub-flow sets llm_base_url only when a base URL was
\* entered, which happens for the custom provider only, and otherwise leaves
\* the key as it was, present with its old value or absent; the AI-only
\* update then saves the new provider, key and model together with the old
\* llm_base_url.
C30_BaseUrlOnlyWhenEntered ==
    wizard.llm_result = Some("success") =>
        LET a == wizard.answers[1]
            before == IF wizard.flow = "ai_only" THEN wizard.start["cwd"][1]
                      ELSE EmptyMap
            cfg == wizard.config
        IN  /\ a.base_url # None =>
                  /\ wizard.provider = Some("custom")
                  /\ cfg["llm_base_url"] = a.base_url[1]
            /\ a.base_url = None =>
                  /\ "llm_base_url" \in DOMAIN cfg <=> "llm_base_url" \in DOMAIN before
                  /\ "llm_base_url" \in DOMAIN cfg =>
                        cfg["llm_base_url"] = before["llm_base_url"]
            /\ (wizard.flow = "ai_only" /\ wizard.success = Some(TRUE)) =>
                  configFiles["cwd"] = Some(cfg)

\* an AI-only update over a configuration of a custom endpoint chose
\* openai, succeeded, and saved the new provider next to the old base URL
C30_Witness ==
    /\ wizard.pc = "done"
    /\ wizard.flow = "ai_only"
    /\ wizard.success = Some(TRUE)
    /\ wizard.llm_result = Some("success")
    /\ wizard.start["cwd"] = Some(OldConfigWithLlm)
    /\ configFiles["cwd"][1]["llm_provider"] = "openai"
    /\ configFiles["cwd"][1]["llm_api_key"] = "k1"
    /\ configFiles["cwd"][1]["llm_base_url"] = "http://old"

\* the decision list of the environment credentials, in its order
EnvRules ==
    <<<<{"OPENAI_API_KEY"}, "openai">>,
      <<{"DEEPSEEK_API_KEY"}, "deepseek">>,
      <<{"DASHSCOPE_API_KEY"}, "qwen">>,
      <<{"MODELSCOPE_API_KEY"}, "modelscope">>,
      <<{"KIMI_API_KEY", "MOONSHOT_API_KEY"}, "kimi">>,
      <<{"ZHIPU_API_KEY", "GLM_API_KEY"}, "zhipu">>,
      <<{"GEMINI_API_KEY", "GOOGLE_API_KEY"}, "gemini">>,
      <<{"CLAUDE_API_KEY", "ANTHROPIC_API_KEY"}, "claude">>,
      <<{"VLLM_API_KEY", "VLLM_HOST"}, "vllm">>>>

\* the first rule of a list of <<matches, provider>> pairs that matches
FirstRule(rules) ==
    LET hits == {n \in DOMAIN rules : rules[n][1]}
    IN  IF hits = {} THEN None
        ELSE Some(rules[CHOOSE n \in hits : \A o \in hits : n <= o][2])

\* what the shape of an API key decides, None when it decides nothing
KeyShapeRule(key) ==
    IF key = None \/ (StartsWith(key[1], <<"s","k","-">>) /\ ~StartsWith(key[1], <<"s","k","-","a","n","t","-">>)
                         /\ Len(key[1]) > 50)
    THEN None
    ELSE FirstRule(<< <<StartsWith(key[1], <<"m","s","-">>), "modelscope">>,
                      <<StartsWith(key[1], <<"A","I","z","a">>), "gemini">>,
                      <<StartsWith(key[1], <<"s","k","-","a","n","t","-">>), "claude">>,
                      <<lower(key[1]) = <<"v","l","l","m">>, "vllm">>,
                      <<lower(key[1]) = <<"l","o","c","a","l">>, "local">>,
                      <<Contains(last20(key[1]), <<".">>), "zhipu">> >>)

\* what the substrings of a base URL decide, None when they decide nothing
UrlRule(url) ==
    IF url = None THEN None
    ELSE LET u == lower(url[1])
             is_local == Contains(u, <<"l","o","c","a","l","h","o","s","t">>) \/ Contains(u, <<"1","2","7",".","0",".","0",".","1">>)
         IN  FirstRule(<<<<Contains(u, <<"a","p","i",".","o","p","e","n","a","i",".","c","o","m">>), "openai">>,
                         <<Contains(u, <<"a","p","i",".","d","e","e","p","s","e","e","k",".","c","o","m">>), "deepseek">>,
                         <<Contains(u, <<"d","a","s","h","s","c","o","p","e",".","a","l","i","y","u","n","c","s",".","c","o","m">>), "qwen">>,
                         <<Contains(u, <<"a","p","i","-","i","n","f","e","r","e","n","c","e",".","m","o","d","e","l","s","c","o","p","e",".","c","n">>), "modelscope">>,
                         <<Contains(u, <<"a","p","i",".","m","o","o","n","s","h","o","t",".","c","n">>), "kimi">>,
                         <<Contains(u, <<"o","p","e","n",".","b","i","g","m","o","d","e","l",".","c","n">>), "zhipu">>,
                         <<Contains(u, <<"g","e","n","e","r","a","t","i","v","e","l","a","n","g","u","a","g","e",".","g","o","o","g","l","e","a","p","i","s",".","c","o","m">>), "gemini">>,
                         <<Contains(u, <<"a","i",".","g","o","o","g","l","e",".","d","e","v">>), "gemini">>,
                         <<Contains(u, <<"a","p","i",".","a","n","t","h","r","o","p","i","c",".","c","o","m">>), "claude">>,
                         <<is_local /\ Contains(u, <<":","8","0","0","0">>) /\ Contains(u, <<"v","l","l","m">>), "vllm">>,
                         <<is_local, "local">>,
                         <<\E port \in {<<":","8","0","8","0">>, <<":","7","8","6","0">>, <<":","5","0","0","0">>} : Contains(u, port), "local">> >>)

\* C23: the provider is decided by the first rule that matches: the explicit
\* provider; else the first environment credential that is set, in the order
\* openai, deepseek, qwen, modelscope, kimi, zhipu, gemini, claude, vllm,
\* whatever the API key and the base URL say; else the shape of the API key;
\* else the substrings of the base URL; else "auto".
C23_ProviderFirstMatch ==
    output # None =>
        LET key == IF input.api_key # None THEN input.api_key
                   ELSE input.env.LLM_API_KEY
            url == IF input.base_url # None THEN input.base_url
                   ELSE input.env.LLM_BASE_URL
            by_env == FirstRule([n \in DOMAIN EnvRules |->
                         <<EnvRules[n][1] \cap input.env.set # {}, EnvRules[n][2]>>])
            layers == <<input.provider, by_env, KeyShapeRule(key), UrlRule(url),
                        Some("auto")>>
            first == CHOOSE n \in DOMAIN layers :
                        layers[n] # None /\ \A o \in 1..(n - 1) : layers[o] = None
        IN  output = layers[first]

\* the DeepSeek credential was the only one set and decided, although the key
\* has the shape of a Gemini key and the base URL is OpenAI's
C23_Witness ==
    /\ output = Some("deepseek")
    /\ input.provider = None
    /\ input.env.set = {"DEEPSEEK_API_KEY"}
    /\ input.api_key = Some(GEMINI_KEY)
    /\ input.base_url = Some(OPENAI_URL)

\* the value of a ledger entry's primary metric, None when it has none
PrimaryValue(r) ==
    IF r.primary_metric # None /\ r.primary_metric[1] \in DOMAIN r.metrics
    THEN Some(r.metrics[r.primary_metric[1]])
    ELSE None

\* the completed runs of the ledger inside the time window
CompletedInWindow ==
    {i \in DOMAIN input.runs :
        /\ input.runs[i].status \in {"completed", "succeeded"}
        /\ input.runs[i].ended_at[1][2] >= input.now - input.since_days}

\* C24: the run named by the best-result section is a completed run inside
\* the time window whose primary-metric value is the maximum among the
\* completed runs in the window.
C24_BestIsMaxPrimaryMetric ==
    (output # None /\ input.name_pattern = None /\ output[1].best # None) =>
        /\ \E i \in CompletedInWindow : input.runs[i] = output[1].best[1]
        /\ \A i \in CompletedInWindow :
              PrimaryValue(input.runs[i]) # None =>
                 /\ PrimaryValue(output[1].best[1]) # None
                 /\ PrimaryValue(output[1].best[1])[1] >= PrimaryValue(input.runs[i])[1]

\* C27: over a ledger the guardian wrote, entries with a null name included,
\* filter_runs with a name pattern completes without error and returns
\* exactly the entries whose name contains the pattern, in ledger order.
C27_FilterByNameTotal ==
    (output # None /\ input.name_pattern # None) =>
        LET named(r) == r.name # None /\ Contains(r.name[1], input.name_pattern[1])
        IN  /\ output[1].raises = None
            /\ output[1].value = SelectSeq(input.runs, named)

\* C25: the report of a run that finished with metrics, over a reference
\* from the ledger that has metrics too, has the four-column comparison
\* table as its Metrics section and the diff holds the reference as a full
\* record; the table of current values alone appears only when there is no
\* reference with metrics.
C25_ReportComparesWithReference ==
    \A g \in Guardians :
        (pc[g] = "done" /\ R(g).metrics # EmptyMap) =>
            LET d == diff[g]
                with_metrics == d.reference_run # None
                                   /\ d.reference_run[1].metrics # EmptyMap
            IN  /\ with_metrics =>
                      /\ d.reference_record # None
                      /\ reportFiles[Id(g)][1].metrics_section = "comparison_table"
                /\ reportFiles[Id(g)][1].metrics_section = "value_table" => ~with_metrics

\* the values a metric is printed with in a log, in the order of the text
RECURSIVE Printed(_, _)
Printed(pairs, name) ==
    IF pairs = <<>> THEN <<>>
    ELSE (IF standardize_metric_name(pairs[1].name) = name
          THEN <<pairs[1].value>> ELSE <<>>) \o Printed(Tail(pairs), name)

\* the pairs of a log, line after line
RECURSIVE Flat(_)
Flat(log) == IF log = <<>> THEN <<>> ELSE log[1] \o Flat(Tail(log))

\* C26: every textual occurrence of a metric is one observation: a metric
\* printed once yields final_<name> only; a metric printed k > 1 times
\* yields final_<name>, its last value, and initial_<name>, its first; a
\* metric never printed yields neither.
C26_InitialOnlyAfterSeveral ==
    output # None =>
        \A name \in {"loss", "accuracy"} :
            LET printed == Printed(Flat(input), name)
                fm == output[1].final_metrics
            IN  /\ (name \in DOMAIN output[1].history) <=> printed # <<>>
                /\ printed # <<>> =>
                      /\ Len(output[1].history[name]) = Len(printed)
                      /\ fm[<<"final", name>>] = printed[Len(printed)]
                /\ <<"final", name>> \in DOMAIN fm <=> printed # <<>>
                /\ <<"initial", name>> \in DOMAIN fm <=> Len(printed) > 1
                /\ Len(printed) > 1 => fm[<<"initial", name>>] = printed[1]

\* the last entry of history.json and the run_record.json of guardian g's
\* run agree on every field the entry has, and the run has ended
LedgerAgreesWithRecord(g) ==
    /\ historyFile # None /\ historyFile[1] # <<>>
    /\ recordFiles[Id(g)] # None
    /\ LET entry == historyFile[1][Len(historyFile[1])]
           file == recordFiles[Id(g)][1]
       IN  /\ \A k \in {"run_id", "name", "status", "fingerprint", "metrics",
                         "primary_metric", "duration_seconds", "ended_at",
                         "config_values"} : entry[k] = file[k]
           /\ entry.run_id = Id(g)
           /\ entry.status \in Terminal
           /\ entry.ended_at # None

\* C28: when execute returns or re-raises, the last entry of history.json
\* and the run's run_record.json describe the same run: they agree on
\* run_id, name, status, fingerprint, metrics, primary_metric,
\* duration_seconds, ended_at and config_values, and the status is
\* succeeded, failed or interrupted, never pending.
C28_LedgerAndRecordAgree ==
    [][\A g \in Guardians :
          (pc[g] = "finalized" /\ pc'[g] = "done") => LedgerAgreesWithRecord(g)']_vars

\* execute re-raised the interrupt of a run that had read metrics, and the
\* ledger ends with that run's entry
C28_Witness ==
    \E g \in Guardians :
        /\ pc[g] = "done"
        /\ result[g] = "KeyboardInterrupt"
        /\ R(g).metrics # EmptyMap
        /\ historyFile[1][Len(historyFile[1])].run_id = Id(g)
        /\ historyFile[1][Len(historyFile[1])].status = "interrupted"
        /\ recordFiles[Id(g)][1].status = "interrupted"
        /\ recordFiles[Id(g)][1].metrics = R(g).metrics

\* C29: the finally block ingests <workdir>/metrics.json and
\* <workdir>/params.json because they exist, whoever wrote them: the record
\* takes every metric value of the file and the parameters under
\* _tracked_params, the primary metric and the diff are computed from the
\* record holding them, and the ledger entry carries the same values. So a
\* run whose command wrote neither file carries those a previous run left.
C29_LeftoverFilesIngested ==
    [][\A g \in Guardians :
          /\ (pc[g] = "finally" /\ pc'[g] = "report") =>
                /\ metricsFile # None =>
                      /\ \A n \in DOMAIN metricsFile[1] :
                            /\ n \in DOMAIN R(g)'.metrics
                            /\ R(g)'.metrics[n] = metricsFile[1][n]
                      /\ R(g)'.primary_metric # None
                      /\ R(g).primary_metric = None =>
                            R(g)'.primary_metric[1] \in DOMAIN metricsFile[1]
                /\ trackerFiles.params_json # None =>
                      /\ TRACKED_PARAMS \in DOMAIN R(g)'.config_values
                      /\ R(g)'.config_values[TRACKED_PARAMS] = trackerFiles.params_json
                /\ diff'[g] = diff_against_history(R(g)', history[g])
          /\ (pc[g] = "append" /\ pc'[g] = "finalized") =>
                LET entry == historyFile'[1][Len(historyFile'[1])]
                IN  /\ entry.metrics = R(g).metrics
                    /\ entry.config_values = R(g).config_values
                    /\ recordFiles[Id(g)][1].metrics = R(g).metrics
                    /\ recordFiles[Id(g)][1].config_values = R(g).config_values]_vars

\* a first run's script wrote metrics.json and params.json; the command of
\* the second run could not even be started, and its record and ledger
\* entry hold the first run's metric values and parameters
C29_Witness ==
    \E g, h \in Guardians :
        /\ g # h
        /\ pc[g] = "done" /\ pc[h] = "done"
        /\ appendOrder = <<h, g>>
        /\ result[g] = "OSError"
        /\ metricsFile # None
        /\ trackerFiles.params_json # None
        /\ R(g).metrics = metricsFile[1]
        /\ R(g).primary_metric # None
        /\ R(g).config_values[TRACKED_PARAMS] = trackerFiles.params_json
        /\ historyFile[1][2].metrics = R(h).metrics
        /\ historyFile[1][2].config_values[TRACKED_PARAMS] = trackerFiles.params_json
        /\ diff[g].reference_run = Some(historyFile[1][1])

\* the value of an inner key of a parameter map, None when absent
Inner(m, k) == IF k \in DOMAIN m THEN Some(m[k]) ELSE None

\* C15: when both sides hold a parameter map under _tracked_params, the
\* config diff has an entry keyed by every inner key whose values differ
\* (lr: 0.01 against 0.02; batch_size: absent against 32), and no entry when
\* the two config maps are equal.
C15_NestedKeysHoisted ==
    (/\ output # None
     /\ get(input.current, TRACKED_PARAMS) # None
     /\ get(input.reference_config, TRACKED_PARAMS) # None) =>
        LET c == input.current[TRACKED_PARAMS][1]
            r == input.reference_config[TRACKED_PARAMS][1]
            entries == output[1]
        IN  /\ \A k \in (DOMAIN c) \cup (DOMAIN r) :
                  Inner(c, k) # Inner(r, k) =>
                      \E i \in DOMAIN entries :
                          /\ entries[i].key = k
                          /\ entries[i].current = Inner(c, k)
                          /\ entries[i].reference = Inner(r, k)
            /\ input.current = input.reference_config => entries = <<>>

====
